---------------------------- MODULE Spec2Model ----------------------------
(***************************************************************************)
(* A model of demisto/gocs: the option-based client construction           *)
(* (common.go, legacy cs.go), the request pipeline client.do, the          *)
(* parameter encoders and the endpoint methods built on them.              *)
(*                                                                         *)
(* Go strings are modelled as sequences of one-character strings, so that  *)
(* emptiness, prefixes, suffixes and concatenation are computed and not    *)
(* assumed.  The empty string is << >>.                                    *)
(***************************************************************************)
EXTENDS Integers, Sequences, FiniteSets, TLC

VARIABLES
    pc,        \* position of the single caller: "start", "constructed", "inflight", "returned", "encoded"
    family,    \* which constructor / client type: "Intel", "Host", "Legacy", or "none"
    options,   \* the option list handed to newClient (after the constructor's prepend)
    c,         \* the client struct (draft during construction, built afterwards)
    ret,       \* what the last call returned: [value, err], value being "nil", "client", "resp" or "none" (no value result)
    applied,   \* how many options of the list were invoked during construction
    errout,    \* what was written to the error log, in order
    traceout,  \* what was written to the trace log, in order
    op,        \* the endpoint method in progress: [name, raw, do], do telling whether it invoked client.do
    req,       \* the caller's request struct (the encoders mutate it in place)
    req0,      \* the request struct as the caller passed it in
    params,    \* the url.Values built for the call
    httpreq,   \* the *http.Request handed to the transport
    calls,     \* the requests the transport received during the current invocation
    resp,      \* the *http.Response the transport returned
    body,      \* the response body stream the transport returned: [data, pos, closes]
    sink,      \* the caller's io.Writer (a bytes.Buffer)
    sink0,     \* the sink's contents before the call
    result,    \* the typed decode target after the call
    decoded    \* the response struct a typed endpoint method decoded and returns

vars == <<pc, family, options, c, ret, applied, errout, traceout, op, req, req0,
          params, httpreq, calls, resp, body, sink, sink0, result, decoded>>

-----------------------------------------------------------------------------
(* Bounds of the model *)

\* longest option list a caller passes to a constructor
MaxOptions == 2
\* longest list field of a request
MaxList == 2
\* longest response body, in bytes
MaxBody == 2

-----------------------------------------------------------------------------
(* Strings *)

EmptyStr == << >>

\* the one element of a singleton set; Only({e(x) : x \in {v}}) evaluates v
\* once and names it x in e
Only(S) == CHOOSE x \in S : TRUE

\* strings.HasSuffix(s, suffix)
HasSuffix(s, suffix) ==
    /\ Len(s) >= Len(suffix)
    /\ SubSeq(s, Len(s) - Len(suffix) + 1, Len(s)) = suffix

\* strings.HasPrefix(s, prefix)
HasPrefix(s, prefix) ==
    /\ Len(s) >= Len(prefix)
    /\ SubSeq(s, 1, Len(prefix)) = prefix

LowerLetters == <<"a","b","c","d","e","f","g","h","i","j","k","l","m",
                  "n","o","p","q","r","s","t","u","v","w","x","y","z">>
UpperLetters == <<"A","B","C","D","E","F","G","H","I","J","K","L","M",
                  "N","O","P","Q","R","S","T","U","V","W","X","Y","Z">>
Digits == <<"0","1","2","3","4","5","6","7","8","9">>

IsIn(ch, alphabet) == \E i \in 1..Len(alphabet) : alphabet[i] = ch

IsLetter(ch) == IsIn(ch, LowerLetters) \/ IsIn(ch, UpperLetters)
IsDigit(ch) == IsIn(ch, Digits)
IsHex(ch) == IsDigit(ch) \/ ch \in {"a","b","c","d","e","f","A","B","C","D","E","F"}

\* a byte below 0x20 or 0x7f; "\n" stands for every such byte
IsCTL(ch) == ch = "\n"

ToLowerChar(ch) ==
    IF IsIn(ch, UpperLetters)
    THEN LowerLetters[CHOOSE i \in 1..Len(UpperLetters) : UpperLetters[i] = ch]
    ELSE ch

\* strings.ToLower
ToLower(s) == [i \in 1..Len(s) |-> ToLowerChar(s[i])]

RECURSIVE Itoa(_)
\* strconv.Itoa for the non-negative integers the model uses
Itoa(n) == IF n < 10 THEN <<Digits[n + 1]>> ELSE Itoa(n \div 10) \o <<Digits[(n % 10) + 1]>>


-----------------------------------------------------------------------------
(* net/url.Parse, as far as SetURL and http.NewRequest depend on it *)

\* the part of s before the first occurrence of ch (all of s when there is none)
CutBefore(s, ch) ==
    IF \E i \in 1..Len(s) : s[i] = ch
    THEN SubSeq(s, 1, (CHOOSE i \in 1..Len(s) : s[i] = ch /\ \A j \in 1..(i-1) : s[j] # ch) - 1)
    ELSE s

RECURSIVE getScheme(_, _)
\* url.getScheme, scanning rawurl from position i:
\* [err, scheme, rest], scheme being the text before the first ':' when only
\* scheme characters precede it
getScheme(rawurl, i) ==
    IF i > Len(rawurl) THEN [err |-> FALSE, scheme |-> EmptyStr, rest |-> rawurl]
    ELSE LET ch == rawurl[i] IN
         IF IsLetter(ch) THEN getScheme(rawurl, i + 1)
         ELSE IF IsDigit(ch) \/ ch \in {"+", "-", "."}
              THEN IF i = 1 THEN [err |-> FALSE, scheme |-> EmptyStr, rest |-> rawurl]
                   ELSE getScheme(rawurl, i + 1)
         ELSE IF ch = ":"
              THEN IF i = 1 THEN [err |-> TRUE, scheme |-> EmptyStr, rest |-> EmptyStr]
                   ELSE [err |-> FALSE, scheme |-> SubSeq(rawurl, 1, i - 1),
                         rest |-> SubSeq(rawurl, i + 1, Len(rawurl))]
         ELSE [err |-> FALSE, scheme |-> EmptyStr, rest |-> rawurl]

\* url.unescape's validation: every '%' is followed by two hex digits
ValidEscapes(s) ==
    \A i \in 1..Len(s) :
        s[i] = "%" => (i + 2 <= Len(s) /\ IsHex(s[i + 1]) /\ IsHex(s[i + 2]))

\* url.Parse(rawurl): [err, Scheme].  Hosts are plain names in this model, so
\* the authority never fails to parse.
urlParse(rawurl) ==
    Only({
        IF \E i \in 1..Len(noFrag) : IsCTL(noFrag[i])
            THEN [err |-> TRUE, Scheme |-> EmptyStr]
        ELSE Only({
            IF gs.err
                THEN [err |-> TRUE, Scheme |-> EmptyStr]
            ELSE Only({
                IF ~HasPrefix(rest, <<"/">>) /\ scheme # EmptyStr
                    THEN [err |-> FALSE, Scheme |-> scheme]         \* opaque URL
                ELSE IF ~HasPrefix(rest, <<"/">>)
                        /\ (\E i \in 1..Len(CutBefore(rest, "/")) : rest[i] = ":")
                    THEN [err |-> TRUE, Scheme |-> EmptyStr]        \* colon in first path segment
                ELSE IF ~ValidEscapes(rest)
                    THEN [err |-> TRUE, Scheme |-> EmptyStr]        \* invalid URL escape
                ELSE [err |-> FALSE, Scheme |-> scheme]
              : scheme \in {ToLower(gs.scheme)}, rest \in {CutBefore(gs.rest, "?")} })
          : gs \in {getScheme(noFrag, 1)} })
      : noFrag \in {CutBefore(rawurl, "#")} })

-----------------------------------------------------------------------------
(* Errors *)

\* the nil error
NoError == [kind |-> "nil", Code |-> "", Message |-> << >>]

\* a *gocs.Error
Error(code, message) == [kind |-> "Error", Code |-> code, Message |-> message]

\* an error value of another package (url, net/http, encoding/json, io)
ForeignError(pkg) == [kind |-> pkg, Code |-> "", Message |-> << >>]

ErrMissingCredentials ==
    Error("missing_credentials", <<"You must provide the CrowsStrike API ID and key">>)

ErrMissingParams ==
    Error("missing_parameters",
          <<"You must provide the CrowsStrike API required parameters for the request">>)

-----------------------------------------------------------------------------
(* The client and its options *)

DefaultURL == <<"h","t","t","p","s",":","/","/","i","n","t","e","l","a","p","i",".",
                "c","r","o","w","d","s","t","r","i","k","e",".","c","o","m","/">>

DefaultURLHost == <<"h","t","t","p","s",":","/","/","f","a","l","c","o","n","a","p","i",".",
                    "c","r","o","w","d","s","t","r","i","k","e",".","c","o","m","/">>

\* the client struct of newClient: only the HTTP client is set
client == [id |-> EmptyStr, key |-> EmptyStr, url |-> EmptyStr,
           errorlog |-> "nil", tracelog |-> "nil", c |-> "http.DefaultClient"]

\* what an option or a helper leaves behind: the client, the error it returned
\* and the lines it added to the two logs
Outcome(cl, err, elog, tlog) == [c |-> cl, err |-> err, errout |-> elog, traceout |-> tlog]

\* c.errorf: the lines reach the error log only when a logger is set
errorf(cl, lines) == IF cl.errorlog # "nil" THEN lines ELSE << >>

\* c.tracef
tracef(cl, lines) == IF cl.tracelog # "nil" THEN lines ELSE << >>

SetCredentials(id, key, cl) ==
    IF id = EmptyStr \/ key = EmptyStr
    THEN Outcome(cl, ErrMissingCredentials, errorf(cl, <<"missing_credentials">>), << >>)
    ELSE Outcome([cl EXCEPT !.id = id, !.key = key], NoError, << >>, << >>)

SetHTTPClient(httpClient, cl) ==
    IF httpClient # "nil"
    THEN Outcome([cl EXCEPT !.c = httpClient], NoError, << >>, << >>)
    ELSE Outcome([cl EXCEPT !.c = "http.DefaultClient"], NoError, << >>, << >>)

\* a SetURL that rejects only a URL without any scheme
SetURLAnyScheme(rawurl0, cl) ==
    Only({
        IF u.err
        THEN Outcome(cl, ForeignError("url"), errorf(cl, <<"Invalid URL">>), << >>)
        ELSE IF u.Scheme = EmptyStr
        THEN Outcome(cl, Error("bad_url", <<"Invalid schema specified [", rawurl, "]">>),
                     errorf(cl, <<"bad_url">>), << >>)
        ELSE Outcome([cl EXCEPT !.url = IF HasSuffix(rawurl, <<"/">>) THEN rawurl
                                        ELSE rawurl \o <<"/">>],
                     NoError, << >>, << >>)
      : <<rawurl, u>> \in {<<r, urlParse(r)>> :
                              r \in {IF rawurl0 = EmptyStr THEN DefaultURL ELSE rawurl0}} })

\* a SetURL that stores the URL as it was given
SetURLAsGiven(rawurl0, cl) ==
    Only({
        IF u.err
        THEN Outcome(cl, ForeignError("url"), errorf(cl, <<"Invalid URL">>), << >>)
        ELSE IF u.Scheme # <<"h","t","t","p">> /\ u.Scheme # <<"h","t","t","p","s">>
        THEN Outcome(cl, Error("bad_url", <<"Invalid schema specified [", rawurl, "]">>),
                     errorf(cl, <<"bad_url">>), << >>)
        ELSE Outcome([cl EXCEPT !.url = rawurl], NoError, << >>, << >>)
      : <<rawurl, u>> \in {<<r, urlParse(r)>> :
                              r \in {IF rawurl0 = EmptyStr THEN DefaultURL ELSE rawurl0}} })

SetURL(rawurl0, cl) ==
    Only({
        IF u.err
        THEN Outcome(cl, ForeignError("url"), errorf(cl, <<"Invalid URL">>), << >>)
        ELSE IF u.Scheme # <<"h","t","t","p">> /\ u.Scheme # <<"h","t","t","p","s">>
        THEN Outcome(cl, Error("bad_url", <<"Invalid schema specified [", rawurl, "]">>),
                     errorf(cl, <<"bad_url">>), << >>)
        ELSE Outcome([cl EXCEPT !.url = IF HasSuffix(rawurl, <<"/">>) THEN rawurl
                                        ELSE rawurl \o <<"/">>],
                     NoError, << >>, << >>)
      : <<rawurl, u>> \in {<<r, urlParse(r)>> :
                              r \in {IF rawurl0 = EmptyStr THEN DefaultURL ELSE rawurl0}} })

SetErrorLog(logger, cl) == Outcome([cl EXCEPT !.errorlog = logger], NoError, << >>, << >>)

SetTraceLog(logger, cl) == Outcome([cl EXCEPT !.tracelog = logger], NoError, << >>, << >>)

\* the OptionFunc values: an option is a closure over its arguments
ApplyOption(o, cl) ==
    CASE o.f = "SetCredentials" -> SetCredentials(o.id, o.key, cl)
      [] o.f = "SetHTTPClient"  -> SetHTTPClient(o.httpClient, cl)
      [] o.f = "SetURL"         -> SetURL(o.rawurl, cl)
      [] o.f = "SetErrorLog"    -> SetErrorLog(o.logger, cl)
      [] o.f = "SetTraceLog"    -> SetTraceLog(o.logger, cl)

RECURSIVE runOptionsKeepGoing(_, _, _, _, _)
\* a loop that remembers the first error but applies the options that follow
runOptionsKeepGoing(cl, opts, i, elog, tlog) ==
    IF i > Len(opts)
    THEN [c |-> cl, err |-> NoError, errout |-> elog, traceout |-> tlog, applied |-> i - 1]
    ELSE Only({
         IF pair[1].err # NoError THEN [pair[2] EXCEPT !.err = pair[1].err] ELSE pair[2]
       : pair \in {<<o, runOptionsKeepGoing(o.c, opts, i + 1, elog \o o.errout,
                                            tlog \o o.traceout)>>
                      : o \in {ApplyOption(opts[i], cl)}} })

RECURSIVE runOptions(_, _, _, _, _)
\* the loop of newClient over options[i..]: stops at the first option that fails
runOptions(cl, opts, i, elog, tlog) ==
    IF i > Len(opts)
    THEN [c |-> cl, err |-> NoError, errout |-> elog, traceout |-> tlog, applied |-> i - 1]
    ELSE Only({
         IF o.err # NoError
         THEN [c |-> o.c, err |-> o.err, errout |-> elog \o o.errout,
               traceout |-> tlog \o o.traceout, applied |-> i]
         ELSE runOptions(o.c, opts, i + 1, elog \o o.errout, tlog \o o.traceout)
       : o \in {ApplyOption(opts[i], cl)} })

\* a construction that forgot its final check
checkCredentialsDropped(cl) == FALSE

\* the credentials check that ends newClient and New
checkCredentials(cl) == cl.id = EmptyStr \/ cl.key = EmptyStr

\* a construction that looks for the credentials before it runs the options
constructCheckingFirst(cl0, opts) ==
    [built |-> FALSE, c |-> cl0, err |-> ErrMissingCredentials,
     errout |-> << >>, traceout |-> << >>, applied |-> 0]

\* newClient / New, from the initial struct cl0: [built, c, err, errout, traceout, applied]
construct(cl0, opts) ==
    Only({
        IF r.err # NoError
        THEN [built |-> FALSE, c |-> r.c, err |-> r.err, errout |-> r.errout,
              traceout |-> r.traceout, applied |-> r.applied]
        ELSE IF checkCredentials(r.c)
        THEN [built |-> FALSE, c |-> r.c, err |-> ErrMissingCredentials,
              errout |-> r.errout \o errorf(r.c, <<"Missing credentials">>),
              traceout |-> r.traceout \o tracef(r.c, <<"Using URL">>), applied |-> r.applied]
        ELSE [built |-> TRUE, c |-> r.c, err |-> NoError, errout |-> r.errout,
              traceout |-> r.traceout \o tracef(r.c, <<"Using URL">>), applied |-> r.applied]
      : r \in {runOptions(cl0, opts, 1, << >>, << >>)} })

newClient(opts) == construct(client, opts)

\* the options NewIntel hands to newClient
NewIntelOptions(opts) == <<[f |-> "SetURL", rawurl |-> DefaultURL]>> \o opts

\* the options NewHost hands to newClient
NewHostOptions(opts) == <<[f |-> "SetURL", rawurl |-> DefaultURLHost]>> \o opts

\* the legacy constructor New starts from a struct that already has DefaultURL
LegacyNew(opts) == construct([client EXCEPT !.url = DefaultURL], opts)

-----------------------------------------------------------------------------
(* time.Time values and their wire formats *)

\* A *time.Time is << >> (nil) or <<t>>.  A time.Time is Go's zero time
\* (January 1, year 1, the only instant before 1970 in this model) or an
\* instant of 1970-01-01 given by its Unix seconds.
ZeroTime == [year1 |-> TRUE, unix |-> 0]
UnixTime(n) == [year1 |-> FALSE, unix |-> n]

IsZero(t) == t.year1

\* strconv.FormatInt(t.Unix(), 10) for a time of the model
FormatUnix(t) == Itoa(t.unix)

\* two decimal digits
TwoDigits(n) == <<Digits[(n \div 10) + 1], Digits[(n % 10) + 1]>>

\* t.Format(time.RFC3339) for a UTC time of the model
FormatRFC3339(t) ==
    IF t.year1
    THEN <<"0","0","0","1","-","0","1","-","0","1","T","0","0",":","0","0",":","0","0","Z">>
    ELSE <<"1","9","7","0","-","0","1","-","0","1","T">>
         \o TwoDigits(t.unix \div 3600) \o <<":">>
         \o TwoDigits((t.unix % 3600) \div 60) \o <<":">>
         \o TwoDigits(t.unix % 60) \o <<"Z">>

-----------------------------------------------------------------------------
(* url.Values and the add helpers of the Parameter Encoder *)

\* url.Values{}
EmptyValues == << >>

\* the values stored under a key (none when the key is absent)
Get(p, k) == IF k \in DOMAIN p THEN p[k] ELSE << >>

\* url.Values.Add: append the value to the key's list
Add(k, v, p) ==
    IF k \in DOMAIN p THEN [p EXCEPT ![k] = Append(@, v)] ELSE p @@ (k :> <<v>>)

addString(name, val, p) == IF val # EmptyStr THEN Add(name, val, p) ELSE p

addTime(name, t, p) ==
    IF t # << >> /\ ~IsZero(t[1]) THEN Add(name, FormatUnix(t[1]), p) ELSE p

addRFCTime(name, t, p) ==
    IF t # << >> THEN Add(name, FormatRFC3339(t[1]), p) ELSE p

RECURSIVE addStringArr(_, _, _)
addStringArr(name, val, p) ==
    IF val = << >> THEN p
    ELSE addStringArr(name, Tail(val), addString(name, Head(val), p))

\* a sort value with the two directions exchanged
sortValueInverted(sf) ==
    sf.Name \o <<".">> \o (IF sf.Ascending THEN <<"d","e","s","c">> ELSE <<"a","s","c">>)

\* the value addSortFields builds for one sort field
sortValue(sf) ==
    sf.Name \o <<".">> \o (IF sf.Ascending THEN <<"a","s","c">> ELSE <<"d","e","s","c">>)

RECURSIVE addSortFields(_, _, _)
addSortFields(name, sortFields, p) ==
    IF sortFields = << >> THEN p
    ELSE addSortFields(name, Tail(sortFields), addString(name, sortValue(Head(sortFields)), p))

addInt(name, val, p) == addString(name, Itoa(val), p)

-----------------------------------------------------------------------------
(* Parameter names *)

K_q == <<"q">>
K_name == <<"n","a","m","e">>
K_description == <<"d","e","s","c","r","i","p","t","i","o","n">>
K_min_last_modified_date == <<"m","i","n","_","l","a","s","t","_","m","o","d","i","f","i","e","d","_","d","a","t","e">>
K_max_last_modified_date == <<"m","a","x","_","l","a","s","t","_","m","o","d","i","f","i","e","d","_","d","a","t","e">>
K_min_last_activity_date == <<"m","i","n","_","l","a","s","t","_","a","c","t","i","v","i","t","y","_","d","a","t","e">>
K_max_last_activity_date == <<"m","a","x","_","l","a","s","t","_","a","c","t","i","v","i","t","y","_","d","a","t","e">>
K_origins == <<"o","r","i","g","i","n","s">>
K_target_countries == <<"t","a","r","g","e","t","_","c","o","u","n","t","r","i","e","s">>
K_target_industries == <<"t","a","r","g","e","t","_","i","n","d","u","s","t","r","i","e","s">>
K_motivations == <<"m","o","t","i","v","a","t","i","o","n","s">>
K_fields == <<"f","i","e","l","d","s">>
K_sort == <<"s","o","r","t">>
K_offset == <<"o","f","f","s","e","t">>
K_limit == <<"l","i","m","i","t">>
K_order == <<"o","r","d","e","r">>
K_page == <<"p","a","g","e">>
K_perPage == <<"p","e","r","P","a","g","e">>
K_types == <<"t","y","p","e","s">>
K_values == <<"v","a","l","u","e","s">>
K_policies == <<"p","o","l","i","c","i","e","s">>
K_share_levels == <<"s","h","a","r","e","_","l","e","v","e","l","s">>
K_sources == <<"s","o","u","r","c","e","s">>
K_from_expiration_timestamp == <<"f","r","o","m",".","e","x","p","i","r","a","t","i","o","n","_","t","i","m","e","s","t","a","m","p">>
K_to_expiration_timestamp == <<"t","o",".","e","x","p","i","r","a","t","i","o","n","_","t","i","m","e","s","t","a","m","p">>

BasicFields == <<"_","_","b","a","s","i","c","_","_">>

-----------------------------------------------------------------------------
(* The request encoders.  Each returns the request as it leaves it (the code *)
(* writes the defaults into the caller's struct) and the url.Values.         *)

actorRequestToParams(r0) ==
    LET r1 == IF r0.Limit = 0 THEN [r0 EXCEPT !.Limit = 10] ELSE r0
        r  == IF Len(r1.Fields) = 0 THEN [r1 EXCEPT !.Fields = Append(@, BasicFields)] ELSE r1
        p1  == addString(K_q, r.Q, EmptyValues)
        p2  == addString(K_name, r.Name, p1)
        p3  == addString(K_description, r.Description, p2)
        p4  == addTime(K_min_last_modified_date, r.MinLastModifiedDate, p3)
        p5  == addTime(K_max_last_modified_date, r.MaxLastModifieldDate, p4)
        p6  == addTime(K_min_last_activity_date, r.MinLastActivityDate, p5)
        p7  == addTime(K_max_last_activity_date, r.MaxLastActivityDate, p6)
        p8  == addStringArr(K_origins, r.Origins, p7)
        p9  == addStringArr(K_target_countries, r.TargetCountries, p8)
        p10 == addStringArr(K_target_industries, r.TargetIndustries, p9)
        p11 == addStringArr(K_motivations, r.Motivations, p10)
        p12 == addStringArr(K_motivations, r.Motivations, p11)
        p13 == addStringArr(K_fields, r.Fields, p12)
        p14 == addSortFields(K_sort, r.SortFields, p13)
        p15 == addInt(K_offset, r.Offset, p14)
        p16 == addInt(K_limit, r.Limit, p15)
    IN  [req |-> r, params |-> p16]

\* an indicator encoder with the two defaults exchanged
indicatorRequestToParamsSwapped(r0) ==
    LET p1 == (r0.Filter :> <<r0.Value>>)
        p2 == IF r0.Sort # << >>
              THEN Add(K_order,
                       IF r0.Sort[1].Ascending THEN <<"a","s","c">> ELSE <<"d","e","s","c">>,
                       Add(K_sort, r0.Sort[1].Name, p1))
              ELSE p1
        r1 == IF r0.Page = 0 THEN [r0 EXCEPT !.Page = 10] ELSE r0
        r  == IF r1.PerPage = 0 THEN [r1 EXCEPT !.PerPage = 1] ELSE r1
        p3 == Add(K_page, Itoa(r.Page), p2)
        p4 == Add(K_perPage, Itoa(r.PerPage), p3)
    IN  [req |-> r, params |-> p4]

\* an indicator encoder that moves the request on to its next page
indicatorRequestToParamsNextPage(r0) ==
    LET p1 == (r0.Filter :> <<r0.Value>>)
        p2 == IF r0.Sort # << >>
              THEN Add(K_order,
                       IF r0.Sort[1].Ascending THEN <<"a","s","c">> ELSE <<"d","e","s","c">>,
                       Add(K_sort, r0.Sort[1].Name, p1))
              ELSE p1
        r1 == [r0 EXCEPT !.Page = @ + 1]
        r  == IF r1.PerPage = 0 THEN [r1 EXCEPT !.PerPage = 10] ELSE r1
        p3 == Add(K_page, Itoa(r.Page), p2)
        p4 == Add(K_perPage, Itoa(r.PerPage), p3)
    IN  [req |-> r, params |-> p4]

\* an indicator encoder that applies the defaults to a copy of the request
indicatorRequestToParamsOnCopy(r0) ==
    LET p1 == (r0.Filter :> <<r0.Value>>)
        p2 == IF r0.Sort # << >>
              THEN Add(K_order,
                       IF r0.Sort[1].Ascending THEN <<"a","s","c">> ELSE <<"d","e","s","c">>,
                       Add(K_sort, r0.Sort[1].Name, p1))
              ELSE p1
        r1 == IF r0.Page = 0 THEN [r0 EXCEPT !.Page = 1] ELSE r0
        r  == IF r1.PerPage = 0 THEN [r1 EXCEPT !.PerPage = 10] ELSE r1
        p3 == Add(K_page, Itoa(r.Page), p2)
        p4 == Add(K_perPage, Itoa(r.PerPage), p3)
    IN  [req |-> r0, params |-> p4]

\* intel.go: Sort is a *SortField, << >> when nil
indicatorRequestToParams(r0) ==
    LET p1 == (r0.Filter :> <<r0.Value>>)
        p2 == IF r0.Sort # << >>
              THEN Add(K_order,
                       IF r0.Sort[1].Ascending THEN <<"a","s","c">> ELSE <<"d","e","s","c">>,
                       Add(K_sort, r0.Sort[1].Name, p1))
              ELSE p1
        r1 == IF r0.Page = 0 THEN [r0 EXCEPT !.Page = 1] ELSE r0
        r  == IF r1.PerPage = 0 THEN [r1 EXCEPT !.PerPage = 10] ELSE r1
        p3 == Add(K_page, Itoa(r.Page), p2)
        p4 == Add(K_perPage, Itoa(r.PerPage), p3)
    IN  [req |-> r, params |-> p4]

\* legacy cs.go: Sort is a SortField value, always <<sf>>; it is sent when named
legacyIndicatorRequestToParams(r0) ==
    LET p1 == (r0.Filter :> <<r0.Value>>)
        p2 == IF r0.Sort[1].Name # EmptyStr
              THEN Add(K_order,
                       IF r0.Sort[1].Ascending THEN <<"a","s","c">> ELSE <<"d","e","s","c">>,
                       Add(K_sort, r0.Sort[1].Name, p1))
              ELSE p1
        r1 == IF r0.Page = 0 THEN [r0 EXCEPT !.Page = 1] ELSE r0
        r  == IF r1.PerPage = 0 THEN [r1 EXCEPT !.PerPage = 10] ELSE r1
        p3 == Add(K_page, Itoa(r.Page), p2)
        p4 == Add(K_perPage, Itoa(r.PerPage), p3)
    IN  [req |-> r, params |-> p4]

searchRequestToParams(r) ==
    LET p1 == addStringArr(K_types, r.Types, EmptyValues)
        p2 == addStringArr(K_values, r.Values, p1)
        p3 == addStringArr(K_policies, r.Policies, p2)
        p4 == addStringArr(K_share_levels, r.ShareLevels, p3)
        p5 == addStringArr(K_sources, r.Sources, p4)
        p6 == addRFCTime(K_from_expiration_timestamp, r.FromExpirationTimestamp, p5)
        p7 == addRFCTime(K_to_expiration_timestamp, r.ToExpirationTimestamp, p6)
        p8 == IF r.Sort # << >> THEN addSortFields(K_sort, <<r.Sort[1]>>, p7) ELSE p7
        p9 == IF r.Limit # 0 THEN addInt(K_limit, r.Limit, p8) ELSE p8
        p10 == IF r.Offset # 0 THEN addInt(K_offset, r.Offset, p9) ELSE p9
    IN  [req |-> r, params |-> p10]

-----------------------------------------------------------------------------
(* Inputs of construction *)

IDs == {EmptyStr, <<"i">>}

Keys == {EmptyStr, <<"k">>}

\* "", http://a, HTTPS://a/, ftp://a, a (no scheme), :a (does not parse)
RawURLs == { EmptyStr,
             <<"h","t","t","p",":","/","/","a">>,
             <<"H","T","T","P","S",":","/","/","a","/">>,
             <<"f","t","p",":","/","/","a">>,
             <<"a">>,
             <<":","a">> }

OptionValues ==
    {[f |-> "SetCredentials", id |-> i, key |-> k] : i \in IDs, k \in Keys}
    \cup {[f |-> "SetURL", rawurl |-> u] : u \in RawURLs}
    \cup {[f |-> "SetHTTPClient", httpClient |-> h] : h \in {"nil", "custom"}}
    \cup {[f |-> "SetErrorLog", logger |-> l] : l \in {"nil", "errlogger"}}
    \cup {[f |-> "SetTraceLog", logger |-> l] : l \in {"nil", "tracelogger"}}

OptionLists == UNION {[1..n -> OptionValues] : n \in 0..MaxOptions}

-----------------------------------------------------------------------------
(* State *)

NoOp == [name |-> "none", raw |-> FALSE, do |-> FALSE]
NoReq == [type |-> "none"]
NoParams == << >>
NoHTTPReq == [built |-> FALSE]
NoResp == [received |-> FALSE]
NoBody == [data |-> << >>, pos |-> 0, closes |-> 0]
NoDecoded == << >>

CallIdle ==
    /\ op = NoOp /\ req = NoReq /\ req0 = NoReq /\ params = NoParams
    /\ httpreq = NoHTTPReq /\ calls = << >> /\ resp = NoResp /\ body = NoBody
    /\ sink = << >> /\ sink0 = << >> /\ result = "none" /\ decoded = NoDecoded

CallUnchanged ==
    UNCHANGED <<op, req, req0, params, httpreq, calls, resp, body, sink, sink0, result,
                decoded>>

\* before any constructor has run
InitNew ==
    /\ pc = "start" /\ family = "none" /\ options = << >> /\ c = client
    /\ ret = [value |-> "none", err |-> NoError] /\ applied = 0
    /\ errout = << >> /\ traceout = << >>
    /\ CallIdle

-----------------------------------------------------------------------------
(* Construction *)

Constructed(fam, opts, r) ==
    /\ pc' = "constructed"
    /\ family' = fam
    /\ options' = opts
    /\ c' = r.c
    /\ ret' = [value |-> IF r.built THEN "client" ELSE "nil", err |-> r.err]
    /\ applied' = r.applied
    /\ errout' = r.errout
    /\ traceout' = r.traceout
    /\ CallUnchanged

NewIntel ==
    /\ pc = "start"
    /\ \E opts \in OptionLists :
       \E r \in {newClient(NewIntelOptions(opts))} :
          Constructed("Intel", NewIntelOptions(opts), r)

NewHost ==
    /\ pc = "start"
    /\ \E opts \in OptionLists :
       \E r \in {newClient(NewHostOptions(opts))} :
          Constructed("Host", NewHostOptions(opts), r)

New ==
    /\ pc = "start"
    /\ \E opts \in OptionLists :
       \E r \in {LegacyNew(opts)} :
          Constructed("Legacy", opts, r)

NextNew == NewIntel \/ NewHost \/ New

SpecNew == InitNew /\ [][NextNew]_vars

-----------------------------------------------------------------------------
(* Inputs of the encoders *)

A == <<"a">>
B == <<"b">>
F == <<"f">>
P == <<"p">>
V == <<"v">>

ListElems == {EmptyStr, A, B}

Lists == UNION {[1..n -> ListElems] : n \in 0..MaxList}

SortFieldValues ==
    {[Name |-> n, Ascending |-> asc] : n \in {A, B}, asc \in BOOLEAN}
    \cup {[Name |-> EmptyStr, Ascending |-> FALSE]}

SortLists == UNION {[1..n -> SortFieldValues] : n \in 0..MaxList}

\* nil, the zero time, the epoch, 01:01:01 on 1970-01-01
TimePtrs == {<< >>, <<ZeroTime>>, <<UnixTime(0)>>, <<UnixTime(3661)>>}

Offsets == {0, 1, 20}
Limits == {0, 5, 10}

BlankActorRequest ==
    [type |-> "ActorRequest", Q |-> EmptyStr, Name |-> EmptyStr, Description |-> EmptyStr,
     MinLastModifiedDate |-> << >>, MaxLastModifieldDate |-> << >>,
     MinLastActivityDate |-> << >>, MaxLastActivityDate |-> << >>,
     Origins |-> << >>, TargetCountries |-> << >>, TargetIndustries |-> << >>,
     Motivations |-> << >>, Fields |-> << >>, SortFields |-> << >>,
     Offset |-> 0, Limit |-> 0]

ActorListFields == {"Origins", "TargetCountries", "TargetIndustries", "Motivations", "Fields"}

ActorTimeFields == {"MinLastModifiedDate", "MaxLastModifieldDate",
                    "MinLastActivityDate", "MaxLastActivityDate"}

\* the actor requests the encoder is run on: the paging fields vary with the
\* strings, with one list field, with two list fields, with the times or
\* with the sort list
ActorRequests ==
    {[BlankActorRequest EXCEPT !.Q = q, !.Name = n, !.Description = d,
                               !.Offset = o, !.Limit = l] :
        q \in {EmptyStr, A}, n \in {EmptyStr, B}, d \in {EmptyStr, A},
        o \in Offsets, l \in Limits}
    \cup {[BlankActorRequest EXCEPT ![f] = ls, !.Limit = l] :
        f \in ActorListFields, ls \in Lists, l \in Limits}
    \cup {[BlankActorRequest EXCEPT !.Origins = o, !.Motivations = m] :
        o \in Lists, m \in Lists}
    \cup {[BlankActorRequest EXCEPT ![f] = tp, !.MaxLastActivityDate = tq] :
        f \in ActorTimeFields \ {"MaxLastActivityDate"}, tp \in TimePtrs, tq \in TimePtrs}
    \cup {[BlankActorRequest EXCEPT !.SortFields = sf, !.Offset = o] :
        sf \in SortLists, o \in Offsets}

\* Indicators validates the three names before it encodes, so the encoder
\* only ever sees non-empty ones; a filter may carry the name of a
\* parameter the encoder adds itself
IndicatorRequests ==
    {[type |-> "IndicatorRequest", Parameter |-> P, Filter |-> f, Value |-> V,
      Sort |-> s, Page |-> pg, PerPage |-> pp] :
        f \in {F, K_sort, K_page},
        s \in {<< >>} \cup {<<sf>> : sf \in SortFieldValues},
        pg \in {0, 1, 3}, pp \in {0, 10, 25}}

LegacyIndicatorRequests ==
    {[type |-> "LegacyIndicatorRequest", Parameter |-> P, Filter |-> f, Value |-> V,
      Sort |-> <<sf>>, Page |-> pg, PerPage |-> pp] :
        f \in {F, K_sort, K_page}, sf \in SortFieldValues,
        pg \in {0, 1, 3}, pp \in {0, 10, 25}}

BlankSearchIOCsRequest ==
    [type |-> "SearchIOCsRequest", Types |-> << >>, Values |-> << >>, Policies |-> << >>,
     ShareLevels |-> << >>, Sources |-> << >>,
     FromExpirationTimestamp |-> << >>, ToExpirationTimestamp |-> << >>,
     Sort |-> << >>, Offset |-> 0, Limit |-> 0]

SearchListFields == {"Types", "Values", "Policies", "ShareLevels", "Sources"}

SearchIOCsRequests ==
    {[BlankSearchIOCsRequest EXCEPT ![f] = ls, !.Limit = l] :
        f \in SearchListFields, ls \in Lists, l \in Limits}
    \cup {[BlankSearchIOCsRequest EXCEPT !.Types = ty, !.Values = vs] :
        ty \in Lists, vs \in Lists}
    \cup {[BlankSearchIOCsRequest EXCEPT !.FromExpirationTimestamp = tp,
                                        !.ToExpirationTimestamp = tq] :
        tp \in TimePtrs, tq \in TimePtrs}
    \cup {[BlankSearchIOCsRequest EXCEPT !.Sort = s, !.Offset = o, !.Limit = l] :
        s \in {<< >>} \cup {<<sf>> : sf \in SortFieldValues},
        o \in Offsets, l \in Limits}

-----------------------------------------------------------------------------
(* The encoders on their own: a caller's request, then one encoding of it *)

InitEnc ==
    /\ pc = "start" /\ family = "none" /\ options = << >> /\ c = client
    /\ ret = [value |-> "none", err |-> NoError] /\ applied = 0
    /\ errout = << >> /\ traceout = << >>
    /\ op = NoOp
    /\ req \in ActorRequests \cup IndicatorRequests \cup LegacyIndicatorRequests
                \cup SearchIOCsRequests
    /\ req0 = req
    /\ params = NoParams /\ httpreq = NoHTTPReq /\ calls = << >> /\ resp = NoResp
    /\ body = NoBody /\ sink = << >> /\ sink0 = << >> /\ result = "none"
    /\ decoded = NoDecoded

Encoded(e) ==
    /\ pc' = "encoded"
    /\ req' = e.req
    /\ params' = e.params
    /\ UNCHANGED <<family, options, c, ret, applied, errout, traceout, op, req0,
                   httpreq, calls, resp, body, sink, sink0, result, decoded>>

ActorParams ==
    /\ pc = "start" /\ req.type = "ActorRequest"
    /\ \E e \in {actorRequestToParams(req)} : Encoded(e)

IndicatorParams ==
    /\ pc = "start" /\ req.type = "IndicatorRequest"
    /\ \E e \in {indicatorRequestToParams(req)} : Encoded(e)

LegacyIndicatorParams ==
    /\ pc = "start" /\ req.type = "LegacyIndicatorRequest"
    /\ \E e \in {legacyIndicatorRequestToParams(req)} : Encoded(e)

SearchParams ==
    /\ pc = "start" /\ req.type = "SearchIOCsRequest"
    /\ \E e \in {searchRequestToParams(req)} : Encoded(e)

NextEnc == ActorParams \/ IndicatorParams \/ LegacyIndicatorParams \/ SearchParams

SpecEnc == InitEnc /\ [][NextEnc]_vars

-----------------------------------------------------------------------------
(* client.do, first half: from its entry to the call of the transport *)

\* the header set of a new request
NoHeader == << >>

\* http.Header.Set
SetHeader(h, name, val) == IF name \in DOMAIN h THEN [h EXCEPT ![name] = val] ELSE h @@ (name :> val)

\* Intel.authFunc, and the two header lines of the legacy Intel.do
headerAuth(cl, h) ==
    SetHeader(SetHeader(h, "X-CSIX-CUSTID", cl.id), "X-CSIX-CUSTKEY", cl.key)

\* Host.authFunc: http.Request.SetBasicAuth
basicAuth(cl, h) == SetHeader(h, "Authorization", <<"Basic", cl.id, cl.key>>)

\* a hook that leaves the request as it is
authFuncSkipped(fam, cl, h) == h

\* the two strategies exchanged between the families
authFuncSwapped(fam, cl, h) == IF fam = "Host" THEN headerAuth(cl, h) ELSE basicAuth(cl, h)

\* the authentication hook of a client type
authFunc(fam, cl, h) == IF fam = "Host" THEN basicAuth(cl, h) ELSE headerAuth(cl, h)

\* http.NewRequest fails when the URL does not parse; the methods are the
\* constants of the endpoint methods and always valid
NewRequestFails(url) == urlParse(url).err

\* a client that sends every request a second time
dispatchTwice(sent, r) == Append(Append(sent, r), r)

\* c.c.Do(req): the transport receives the request
dispatch(sent, r) == Append(sent, r)

\* lines 192-209: [err, httpreq, calls, traceout]
doSend(cl, fam, method, rawurl, p) ==
    Only({
        IF NewRequestFails(r.url)
        THEN [err |-> ForeignError("url"), httpreq |-> NoHTTPReq, calls |-> << >>,
              traceout |-> << >>]
        ELSE [err |-> NoError, httpreq |-> r, calls |-> dispatch(<< >>, r),
              traceout |-> tracef(cl, <<"request", "Start request">>)]
      : r \in {[built |-> TRUE, method |-> method, url |-> cl.url \o rawurl,
                query |-> IF DOMAIN p # {} THEN <<p>> ELSE << >>,
                Header |-> authFunc(fam, cl,
                                    SetHeader(NoHeader, "Accept", <<"application/json">>)),
                steps |-> <<"NewRequest", "Accept", "authFunc">>]} })

-----------------------------------------------------------------------------
(* client.do, second half: from the transport's answer to the return *)

\* http.StatusText for the codes of the model
StatusText(s) ==
    CASE s = 200 -> "OK"
      [] s = 300 -> "Multiple Choices"
      [] s = 404 -> "Not Found"
      [] OTHER -> ""

\* The response body the transport returned (orig) and the reader that
\* resp.Body currently names (cur): the same stream until DumpResponse
\* replaces resp.Body by an in-memory copy of what was left to read.
\* fault says how the transport's body ends: "none" is a body that ends with
\* io.EOF after its bytes; a body cut short returns an error from the read
\* after its bytes, and from the reads after that one either io.EOF ("eof",
\* as the body of net/http does after io.ErrUnexpectedEOF) or the error
\* again ("err"). failed: the failing read has happened.
Stream(data) == [orig |-> [data |-> data, pos |-> 0, closes |-> 0],
                 cur  |-> [isOrig |-> TRUE, data |-> data, pos |-> 0],
                 fault |-> "none", failed |-> FALSE]

\* a body whose transfer breaks after data
FaultyStream(data, fault) == [Stream(data) EXCEPT !.fault = fault]

\* what the read after the last byte of resp.Body returns
AtEnd(st) ==
    IF st.cur.isOrig /\ st.fault # "none" /\ (~st.failed \/ st.fault = "err")
    THEN "error" ELSE "EOF"

\* what is left to read from resp.Body
Remaining(st) == SubSeq(st.cur.data, st.cur.pos + 1, Len(st.cur.data))

\* read n more bytes from resp.Body
Read(st, n) ==
    [st EXCEPT !.orig = IF st.cur.isOrig THEN [@ EXCEPT !.pos = @ + n] ELSE @,
               !.cur.pos = @ + n]

\* read resp.Body until a read returns io.EOF or an error
ReadToEnd(st) ==
    [Read(st, Len(Remaining(st))) EXCEPT
        !.failed = @ \/ (st.cur.isOrig /\ st.fault # "none")]

\* does httputil.DumpResponse(resp, true) return an error
DumpFails(st) == AtEnd(st) = "error"

\* httputil.DumpResponse(resp, true): drainBody reads resp.Body to its end
\* and closes it, and resp.Body becomes a copy of the bytes read; when the
\* read fails, resp.Body stays the body it was, read up to the failure and
\* not closed
DumpResponse(st) ==
    IF DumpFails(st)
    THEN ReadToEnd(st)
    ELSE [st EXCEPT !.orig = IF st.cur.isOrig
                             THEN [@ EXCEPT !.pos = Len(st.orig.data), !.closes = @ + 1]
                             ELSE @,
                    !.cur = [isOrig |-> FALSE, data |-> Remaining(st), pos |-> 0]]

\* the deferred resp.Body.Close(): the receiver is the body the transport
\* returned, evaluated when the defer statement ran
deferredClose(st) == [st EXCEPT !.orig.closes = @ + 1]

\* encoding/json on the bytes of the model: "{}" is the one well-formed value.
\* [ok, need, more]: need is how many bytes the decoder has to read to know,
\* more is whether it reads on after the last byte because the value is not
\* complete.
jsonScan(data) ==
    IF data = << >> THEN [ok |-> FALSE, need |-> 0, more |-> TRUE]
    ELSE IF data[1] # "{" THEN [ok |-> FALSE, need |-> 1, more |-> FALSE]
    ELSE IF Len(data) = 1 THEN [ok |-> FALSE, need |-> 1, more |-> TRUE]
    ELSE [ok |-> data[2] = "}", need |-> 2, more |-> FALSE]

Min(a, b) == IF a < b THEN a ELSE b

\* a status check that lets 300 pass
isErrorStatusOffByOne(s) == s < 200 \/ s > 300

\* is the status one that handleError turns into an error
isErrorStatus(s) == s < 200 \/ s >= 300

\* the message of the http_error
statusMessage(s) == <<"Unexpected status code: ", Itoa(s), " (", StatusText(s), ")">>

\* handleError: [err, st, errout]
handleError(cl, status, st) ==
    IF isErrorStatus(status)
    THEN [err |-> Error("http_error", statusMessage(status)),
          st |-> IF cl.errorlog # "nil" THEN DumpResponse(st) ELSE st,
          errout |-> errorf(cl, IF DumpFails(st)
                                THEN <<"Unexpected status code">>
                                ELSE <<"response", "Unexpected status code">>)]
    ELSE [err |-> NoError, st |-> st, errout |-> << >>]

\* a type switch without its io.Writer case
isWriterNever(target) == FALSE

\* the type switch on result: an io.Writer gets the bytes, anything else is
\* decoded into
isWriter(target) == target = "writer"

\* lines 223-242, for the target and a decoder that reads ahead by
\* readahead bytes: [err, st, sink, result, errout]
consume(cl, st, target, snk, readahead) ==
    IF target = "nil"
    THEN [err |-> NoError, st |-> st, sink |-> snk, result |-> "none", errout |-> << >>]
    ELSE IF isWriter(target)
    THEN [err |-> IF AtEnd(st) = "error" THEN ForeignError("read") ELSE NoError,
          st |-> ReadToEnd(st),
          sink |-> snk \o Remaining(st), result |-> "none", errout |-> << >>]
    ELSE Only({
             IF scan.ok
             THEN [err |-> NoError, st |-> st1, sink |-> snk, result |-> "decoded",
                   errout |-> << >>]
             ELSE [err |-> IF scan.more /\ AtEnd(st) = "error"
                           THEN ForeignError("read") ELSE ForeignError("json"),
                   st |-> IF cl.errorlog # "nil" THEN DumpResponse(st1) ELSE st1,
                   sink |-> snk, result |-> "failed",
                   errout |-> IF DumpFails(st1) THEN << >> ELSE errorf(cl, <<"response">>)]
           : <<scan, st1>> \in
                {<<sc, IF sc.more
                       THEN ReadToEnd(st)
                       ELSE Read(st, Min(Len(Remaining(st)), sc.need + readahead))>> :
                    sc \in {jsonScan(Remaining(st))}} })

\* lines 209-243 for a transport outcome o: [err, received, body, sink, result, errout, traceout]
doReceive(cl, o, target, snk, readahead) ==
    LET tEnd == tracef(cl, <<"End request">>) IN
    IF o.err
    THEN [err |-> ForeignError("net"), received |-> FALSE, body |-> NoBody, sink |-> snk,
          result |-> "none", errout |-> << >>, traceout |-> tEnd]
    ELSE Only({
         IF he.err # NoError
         THEN [err |-> he.err, received |-> TRUE, body |-> deferredClose(he.st).orig,
               sink |-> snk, result |-> "none", errout |-> he.errout, traceout |-> tEnd]
         ELSE Only({
                  [err |-> co.err, received |-> TRUE, body |-> deferredClose(co.st).orig,
                   sink |-> co.sink, result |-> co.result, errout |-> co.errout,
                   traceout |-> tEnd \o (IF DumpFails(he.st)
                                          THEN << >> ELSE tracef(cl, <<"response">>))]
                : co \in {consume(cl,
                                  IF cl.tracelog # "nil" THEN DumpResponse(he.st) ELSE he.st,
                                  target, snk, readahead)} })
       : he \in {handleError(cl, o.StatusCode, FaultyStream(o.Body, o.fault))} })

-----------------------------------------------------------------------------
(* Inputs of the endpoint methods and of the transport *)

Path_actors == <<"a","c","t","o","r","/","v","1","/","q","u","e","r","i","e","s","/","a","c","t","o","r","s">>
Path_indicators == <<"i","n","d","i","c","a","t","o","r","/","v","1","/","s","e","a","r","c","h","/">>
Path_iocs == <<"i","n","d","i","c","a","t","o","r","s","/","q","u","e","r","i","e","s","/","i","o","c","s","/","v","1">>

\* the requests the endpoint methods are called with; "%" is a parameter
\* name that is no valid URL escape
CallIndicatorRequests ==
    {[type |-> "IndicatorRequest", Parameter |-> pa, Filter |-> f, Value |-> v,
      Sort |-> << >>, Page |-> pg, PerPage |-> 0] :
        pa \in {EmptyStr, P, <<"%">>}, f \in {EmptyStr, F}, v \in {EmptyStr, V}, pg \in {0, 2}}

\* the legacy request holds its SortField by value
AsLegacy(r) == [r EXCEPT !.type = "LegacyIndicatorRequest",
                         !.Sort = <<[Name |-> EmptyStr, Ascending |-> FALSE]>>]

CallActorRequests ==
    {BlankActorRequest, [BlankActorRequest EXCEPT !.Motivations = <<A, B>>],
     [BlankActorRequest EXCEPT !.Limit = 5, !.Fields = <<A>>]}

CallSearchIOCsRequests ==
    {BlankSearchIOCsRequest, [BlankSearchIOCsRequest EXCEPT !.Types = <<A>>, !.Limit = 5]}

\* what the caller's bytes.Buffer holds before the call
Sinks == {<< >>, <<"s">>}

Statuses == {199, 200, 299, 300, 404}

Bytes == {"{", "}", "x"}

Bodies == UNION {[1..n -> Bytes] : n \in 0..MaxBody}

\* what c.c.Do returns: an error, or a response with a status and a body
TransportOutcomes ==
    {[err |-> TRUE]}
    \cup {[err |-> FALSE, StatusCode |-> s, Body |-> b, fault |-> "none"] :
             s \in Statuses, b \in Bodies}

\* responses whose body breaks off after its bytes
FaultyOutcomes ==
    {[err |-> FALSE, StatusCode |-> s, Body |-> b, fault |-> f] :
        s \in Statuses, b \in Bodies, f \in {"eof", "err"}}

\* the option lists the clients of the call phase were built from
CallOptions(e, t) ==
    <<[f |-> "SetErrorLog", logger |-> e],
      [f |-> "SetCredentials", id |-> <<"i">>, key |-> <<"k">>],
      [f |-> "SetTraceLog", logger |-> t]>>

\* the constructor of a client type on a caller's options: [options, r]
Build(fam, opts) ==
    CASE fam = "Intel" -> [options |-> NewIntelOptions(opts), r |-> newClient(NewIntelOptions(opts))]
      [] fam = "Host" -> [options |-> NewHostOptions(opts), r |-> newClient(NewHostOptions(opts))]
      [] fam = "Legacy" -> [options |-> opts, r |-> LegacyNew(opts)]

-----------------------------------------------------------------------------
(* The endpoint methods on a built client *)

\* a client has been built, with or without each log
InitCall ==
    /\ pc = "constructed"
    /\ family \in {"Intel", "Host", "Legacy"}
    /\ \E e \in {"nil", "errlogger"}, t \in {"nil", "tracelogger"} :
       \E b \in {Build(family, CallOptions(e, t))} :
          /\ b.r.built
          /\ options = b.options
          /\ c = b.r.c
          /\ applied = b.r.applied
          /\ errout = b.r.errout
          /\ traceout = b.r.traceout
    /\ ret = [value |-> "client", err |-> NoError]
    /\ CallIdle

ConstructionUnchanged == UNCHANGED <<family, options, c, applied>>

\* the endpoint method returns before it reaches client.do
ReturnEarly(name, raw, r, value, err) ==
    /\ pc' = "returned"
    /\ op' = [name |-> name, raw |-> raw, do |-> FALSE]
    /\ req0' = r /\ req' = r
    /\ ret' = [value |-> value, err |-> err]
    /\ UNCHANGED <<params, httpreq, calls, resp, body, sink, sink0, result, decoded,
                   errout, traceout>>
    /\ ConstructionUnchanged

\* the endpoint method encoded its request (e) and invoked client.do, which
\* either fails to build the request or hands it to the transport
Invoke(name, raw, r, e, method, rawurl, snk) ==
    \E s \in {doSend(c, family, method, rawurl, e.params)} :
    /\ op' = [name |-> name, raw |-> raw, do |-> TRUE]
    /\ req0' = r /\ req' = e.req
    /\ params' = e.params
    /\ httpreq' = s.httpreq
    /\ calls' = s.calls
    /\ traceout' = traceout \o s.traceout
    /\ sink' = snk /\ sink0' = snk
    /\ IF s.err # NoError
       THEN /\ pc' = "returned"
            /\ ret' = [value |-> IF raw THEN "none" ELSE "resp", err |-> s.err]
       ELSE /\ pc' = "inflight"
            /\ UNCHANGED ret
    /\ UNCHANGED <<resp, body, result, decoded, errout>>
    /\ ConstructionUnchanged

\* the sink a caller passes: none to a typed method
SinksOf(raw) == IF raw THEN Sinks ELSE {<< >>}

\* Intel.Actors (raw = FALSE) and Intel.ActorsJSON (raw = TRUE)
Actors ==
    /\ pc = "constructed" /\ family \in {"Intel", "Legacy"}
    /\ \E raw \in BOOLEAN, r \in CallActorRequests :
       \E snk \in SinksOf(raw) :
       \E e \in {actorRequestToParams(r)} :
          Invoke(IF raw THEN "ActorsJSON" ELSE "Actors", raw, r, e, "GET", Path_actors, snk)

\* a check that forgot the filter value
missingParamsNoValue(r) == r.Parameter = EmptyStr \/ r.Filter = EmptyStr

\* the test Indicators and IndicatorsJSON make before anything else
missingParams(r) == r.Parameter = EmptyStr \/ r.Filter = EmptyStr \/ r.Value = EmptyStr

\* Intel.Indicators (raw = FALSE) and Intel.IndicatorsJSON (raw = TRUE)
Indicators ==
    /\ pc = "constructed" /\ family \in {"Intel", "Legacy"}
    /\ \E raw \in BOOLEAN, r0 \in CallIndicatorRequests :
       \E snk \in SinksOf(raw) :
          LET r    == IF family = "Legacy" THEN AsLegacy(r0) ELSE r0
              name == IF raw THEN "IndicatorsJSON" ELSE "Indicators"
          IN  IF missingParams(r)
              THEN ReturnEarly(name, raw, r, IF raw THEN "none" ELSE "nil", ErrMissingParams)
              ELSE \E e \in {IF family = "Legacy" THEN legacyIndicatorRequestToParams(r)
                                                      ELSE indicatorRequestToParams(r)} :
                      Invoke(name, raw, r, e, "GET", Path_indicators \o r.Parameter, snk)

\* Host.SearchIOCs (raw = FALSE) and Host.SearchIOCsJSON (raw = TRUE)
SearchIOCs ==
    /\ pc = "constructed" /\ family = "Host"
    /\ \E raw \in BOOLEAN, r \in CallSearchIOCsRequests :
       \E snk \in SinksOf(raw) :
       \E e \in {searchRequestToParams(r)} :
          Invoke(IF raw THEN "SearchIOCsJSON" ELSE "SearchIOCs", raw, r, e, "GET", Path_iocs, snk)

\* the transport answers and client.do, then the endpoint method, return
\* client.do from the answer of the transport to its return, with a decoder
\* that reads ahead by readahead bytes; noted says whether the state keeps
\* how the body ended and how far the decoder read ahead
Receive(o, readahead, noted) ==
    /\ pc = "inflight"
    /\ \E d \in {doReceive(c, o, IF op.raw THEN "writer" ELSE "typed", sink, readahead)} :
          /\ pc' = "returned"
          /\ resp' = IF ~d.received THEN NoResp
                     ELSE IF noted
                     THEN [received |-> TRUE, StatusCode |-> o.StatusCode, Body |-> o.Body,
                           fault |-> o.fault, readahead |-> readahead]
                     ELSE [received |-> TRUE, StatusCode |-> o.StatusCode, Body |-> o.Body]
          /\ body' = d.body
          /\ sink' = d.sink
          /\ result' = d.result
          /\ errout' = errout \o d.errout
          /\ traceout' = traceout \o d.traceout
          /\ ret' = [value |-> IF op.raw THEN "none" ELSE "resp", err |-> d.err]
    /\ UNCHANGED <<op, req, req0, params, httpreq, calls, sink0, decoded>>
    /\ ConstructionUnchanged

\* the transport answers with an error or with a response whose body
\* arrives whole
Respond ==
    \E o \in TransportOutcomes, readahead \in 0..MaxBody : Receive(o, readahead, FALSE)

NextCall == Actors \/ Indicators \/ SearchIOCs \/ Respond

SpecCall == InitCall /\ [][NextCall]_vars

-----------------------------------------------------------------------------
(* Properties of construction *)

HTTP == <<"h","t","t","p">>
HTTPS == <<"h","t","t","p","s">>

\* the option returns nil whatever client it is applied to: its arguments
\* alone decide
OptionValid(o) == ApplyOption(o, client).err = NoError

\* a base URL option whose URL has a scheme, or none, other than http and https
BadSchemeOption(o) ==
    /\ o.f = "SetURL"
    /\ LET u == urlParse(IF o.rawurl = EmptyStr THEN DefaultURL ELSE o.rawurl)
       IN  ~u.err /\ u.Scheme # HTTP /\ u.Scheme # HTTPS

\* C1: a constructor given only options that are valid on their own, and left
\* without an identifier or a secret, returns missing_credentials and no
\* client.
C1_MissingCredentials ==
    ( /\ pc = "constructed"
      /\ \A i \in 1..Len(options) : OptionValid(options[i])
      /\ (c.id = EmptyStr \/ c.key = EmptyStr) )
    => (ret.err = ErrMissingCredentials /\ ret.value = "nil")

\* valid options of other kinds were supplied, credentials were not
C1_Witness ==
    /\ pc = "constructed"
    /\ Len(options) >= 2
    /\ \A i \in 1..Len(options) : OptionValid(options[i])
    /\ \E i \in 1..Len(options) : options[i].f \in {"SetErrorLog", "SetHTTPClient", "SetTraceLog"}
    /\ c.id = EmptyStr
    /\ ret.err.Code = "missing_credentials"

\* C2 (as claimed): a constructor given a base URL of another scheme than
\* http and https returns bad_url, whatever the other options and wherever
\* the URL option stands.
C2_BadSchemeAlwaysBadURL ==
    ( /\ pc = "constructed"
      /\ \E i \in 1..Len(options) : BadSchemeOption(options[i]) )
    => (ret.err.Code = "bad_url" /\ ret.value = "nil")

\* C2 (amended): a constructor given a base URL that parses and has another
\* scheme than http and https returns bad_url and no client, whatever
\* follows that option, provided every option before it is valid; an earlier
\* option that fails ends construction with its own error instead.
C2_BadSchemeFirstFailure ==
    ( /\ pc = "constructed"
      /\ \E i \in 1..Len(options) :
            /\ BadSchemeOption(options[i])
            /\ \A j \in 1..(i - 1) : OptionValid(options[j]) )
    => (ret.err.kind = "Error" /\ ret.err.Code = "bad_url" /\ ret.value = "nil")

\* the URL option came last, after valid credentials
C2_Witness ==
    /\ pc = "constructed"
    /\ Len(options) >= 2
    /\ BadSchemeOption(options[Len(options)])
    /\ options[Len(options) - 1].f = "SetCredentials"
    /\ \A j \in 1..(Len(options) - 1) : OptionValid(options[j])
    /\ ret.err.Code = "bad_url"

-----------------------------------------------------------------------------
(* Properties of client.do and of the endpoint methods *)

\* client.do has returned
DoReturned == pc = "returned" /\ op.do

\* client.do has returned after the transport delivered a response
ResponseHandled == DoReturned /\ resp.received

Is2xx(s) == s >= 200 /\ s <= 299

\* C3 (as claimed): every invocation of client.do makes exactly one HTTP
\* call, however it ends.
C3_ExactlyOneHTTPCall == DoReturned => Len(calls) = 1

\* C3 (amended): every invocation of client.do makes at most one HTTP call
\* and never repeats it: exactly one when the request could be built,
\* however the invocation then ends, and none when http.NewRequest rejects
\* the URL, in which case the URL error is returned at once.
C3_OneHTTPCallOnceBuilt ==
    /\ Len(calls) <= 1
    /\ pc = "inflight" => (httpreq.built /\ calls = <<httpreq>>)
    /\ DoReturned => Len(calls) = (IF httpreq.built THEN 1 ELSE 0)
    /\ (DoReturned /\ ~httpreq.built) => (ret.err.kind = "url" /\ ~resp.received)
    /\ (DoReturned /\ httpreq.built) => calls = <<httpreq>>

\* client.do returned a transport error after its one call
C3_Witness ==
    /\ DoReturned
    /\ ret.err.kind = "net"
    /\ Len(calls) = 1

\* C4: whenever client.do returns after a response arrived, the body the
\* transport returned has been read to its end and closed exactly once.
C4_BodyDrainedAndClosedOnce ==
    ResponseHandled => (body.pos = Len(body.data) /\ body.closes = 1)

\* C5: client.do returns an http_error carrying the status and its reason
\* text exactly when the status is outside 200..299; inside, no http_error
\* is made and the body goes on to the sink or the decoder.
C5_HTTPErrorIffNot2xx ==
    ResponseHandled =>
        /\ (ret.err.Code = "http_error") <=> ~Is2xx(resp.StatusCode)
        /\ ~Is2xx(resp.StatusCode) =>
              /\ ret.err.kind = "Error"
              /\ Len(ret.err.Message) = 5
              /\ ret.err.Message[2] = Itoa(resp.StatusCode)
              /\ resp.StatusCode = 404 => ret.err.Message[4] = "Not Found"
              /\ resp.StatusCode = 300 => ret.err.Message[4] = "Multiple Choices"
              /\ result = "none" /\ sink = sink0
        /\ Is2xx(resp.StatusCode) =>
              IF op.raw THEN sink = sink0 \o resp.Body
                        ELSE result \in {"decoded", "failed"}

\* a 404 came back as the http_error that names it
C5_Witness ==
    /\ ResponseHandled
    /\ resp.StatusCode = 404
    /\ ret.err = Error("http_error",
                       <<"Unexpected status code: ", <<"4","0","4">>, " (", "Not Found", ")">>)

\* the request of an indicator search lacks one of its three names
LacksName(r) == r.Parameter = EmptyStr \/ r.Filter = EmptyStr \/ r.Value = EmptyStr

\* C6: an indicator search whose request lacks the parameter, the filter or
\* the value returns missing_parameters, without having encoded anything or
\* built or sent a request.
C6_MissingParamsNoHTTPCall ==
    (op.name \in {"Indicators", "IndicatorsJSON"} /\ LacksName(req0)) =>
        /\ pc = "returned"
        /\ ret.err = ErrMissingParams
        /\ ret.value = (IF op.raw THEN "none" ELSE "nil")
        /\ ~op.do /\ calls = << >> /\ httpreq = NoHTTPReq
        /\ params = NoParams /\ req = req0

\* the raw variant was called with a parameter and a filter but no value
C6_Witness ==
    /\ pc = "returned"
    /\ op.name = "IndicatorsJSON"
    /\ req0.Parameter # EmptyStr /\ req0.Filter # EmptyStr /\ req0.Value = EmptyStr
    /\ ret.err.Code = "missing_parameters"
    /\ calls = << >>

\* C7: with a byte sink as target and a 2xx response, client.do appends to
\* the sink exactly the bytes of the response body, parses nothing and
\* returns no error.
C7_RawSinkGetsExactBytes ==
    (ResponseHandled /\ op.raw /\ Is2xx(resp.StatusCode)) =>
        /\ sink = sink0 \o resp.Body
        /\ result = "none"
        /\ ret.err = NoError

\* a body that is no JSON value went to the sink of a tracing client
C7_Witness ==
    /\ ResponseHandled /\ op.raw
    /\ resp.StatusCode = 200
    /\ resp.Body # << >> /\ ~jsonScan(resp.Body).ok
    /\ c.tracelog # "nil"
    /\ sink0 # << >>
    /\ sink = sink0 \o resp.Body
    /\ ret.err = NoError

-----------------------------------------------------------------------------
(* Properties of the encoders *)

Last(s) == s[Len(s)]

Asc == <<"a","s","c">>
Desc == <<"d","e","s","c">>

\* the parameter name each list field is sent under
KeyOf(f) ==
    CASE f = "Origins" -> K_origins
      [] f = "TargetCountries" -> K_target_countries
      [] f = "TargetIndustries" -> K_target_industries
      [] f = "Motivations" -> K_motivations
      [] f = "Fields" -> K_fields
      [] f = "Types" -> K_types
      [] f = "Values" -> K_values
      [] f = "Policies" -> K_policies
      [] f = "ShareLevels" -> K_share_levels
      [] f = "Sources" -> K_sources

ListFieldsOf(r) ==
    CASE r.type = "ActorRequest" -> ActorListFields
      [] r.type = "SearchIOCsRequest" -> SearchListFields
      [] OTHER -> {}

\* C8 (as claimed): every list field of every request type contributes, under
\* its own key, exactly one entry per value of the list, in input order, and
\* no entry at all when the list is empty.
C8_ListFieldOneEntryPerValue ==
    pc = "encoded" =>
        \A f \in ListFieldsOf(req0) : Get(params, KeyOf(f)) = req0[f]

\* C9 (as claimed): in every encoder a zero page or offset is sent as 1 and a
\* zero limit or page size as 10, and the request holds those defaults
\* afterwards.
C9_EveryEncoderDefaultsPaging ==
    pc = "encoded" =>
        /\ (req0.type \in {"IndicatorRequest", "LegacyIndicatorRequest"} /\ req0.Page = 0)
              => (K_page \in DOMAIN params /\ Last(params[K_page]) = <<"1">> /\ req.Page = 1)
        /\ (req0.type \in {"IndicatorRequest", "LegacyIndicatorRequest"} /\ req0.PerPage = 0)
              => (K_perPage \in DOMAIN params /\ Last(params[K_perPage]) = <<"1","0">>
                  /\ req.PerPage = 10)
        /\ (req0.type \in {"ActorRequest", "SearchIOCsRequest"} /\ req0.Offset = 0)
              => (Get(params, K_offset) = <<(<<"1">>)>> /\ req.Offset = 1)
        /\ (req0.type \in {"ActorRequest", "SearchIOCsRequest"} /\ req0.Limit = 0)
              => (Get(params, K_limit) = <<(<<"1","0">>)>> /\ req.Limit = 10)

\* C9 (amended): the indicator encoders send a zero page as page=1 and a zero
\* page size as perPage=10 and write both defaults into the request; the
\* actor encoder sends a zero limit as limit=10 and writes it into the
\* request, but sends a zero offset as offset=0 and leaves it; the IOC search
\* encoder has no defaults: it leaves a zero limit and a zero offset out of
\* the parameters and never changes the request.
C9_PagingDefaultsPerEncoder ==
    pc = "encoded" =>
        /\ req0.type \in {"IndicatorRequest", "LegacyIndicatorRequest"} =>
              /\ K_page \in DOMAIN params /\ K_perPage \in DOMAIN params
              /\ req.Page = (IF req0.Page = 0 THEN 1 ELSE req0.Page)
              /\ req.PerPage = (IF req0.PerPage = 0 THEN 10 ELSE req0.PerPage)
              /\ Last(params[K_page]) = Itoa(req.Page)
              /\ Last(params[K_perPage]) = Itoa(req.PerPage)
              /\ req0.Page = 0 => Last(params[K_page]) = <<"1">>
              /\ req0.PerPage = 0 => Last(params[K_perPage]) = <<"1","0">>
        /\ req0.type = "ActorRequest" =>
              /\ req.Limit = (IF req0.Limit = 0 THEN 10 ELSE req0.Limit)
              /\ req0.Limit = 0 => Get(params, K_limit) = <<(<<"1","0">>)>>
              /\ req.Offset = req0.Offset
              /\ req0.Offset = 0 => Get(params, K_offset) = <<(<<"0">>)>>
        /\ req0.type = "SearchIOCsRequest" =>
              /\ req = req0
              /\ req0.Limit = 0 => K_limit \notin DOMAIN params
              /\ req0.Offset = 0 => K_offset \notin DOMAIN params

\* an indicator request with zero page and page size has been encoded
C9_Witness ==
    /\ pc = "encoded"
    /\ req0.type = "IndicatorRequest" /\ req0.Page = 0 /\ req0.PerPage = 0
    /\ req.Page = 1 /\ req.PerPage = 10
    /\ params[K_page] = <<(<<"1">>)>> /\ params[K_perPage] = <<(<<"1","0">>)>>

\* the values a list of sort fields is claimed to be sent as
SortValues(sfs) ==
    [i \in 1..Len(sfs) |-> sfs[i].Name \o <<".">> \o (IF sfs[i].Ascending THEN Asc ELSE Desc)]

\* the sort specifications a request carries
SortSpecsOf(r) ==
    CASE r.type = "ActorRequest" -> r.SortFields
      [] r.type = "LegacyIndicatorRequest" ->
            (IF r.Sort[1].Name # EmptyStr THEN r.Sort ELSE << >>)
      [] OTHER -> r.Sort

\* C10 (as claimed): every sort specification of every request type is sent
\* as the single value <name>.asc or <name>.desc, several of them in input
\* order.
C10_EverySortIsNameDotOrder ==
    pc = "encoded" =>
        \E vs \in {Get(params, K_sort)} :
            /\ Len(vs) >= Len(SortSpecsOf(req0))
            /\ SubSeq(vs, Len(vs) - Len(SortSpecsOf(req0)) + 1, Len(vs)) = SortValues(SortSpecsOf(req0))

\* C10 (amended): the actor encoder and the IOC search encoder send each sort
\* specification as the single value <name>.asc or <name>.desc under sort, in
\* input order and nothing else under sort; the indicator encoders instead
\* send a sort specification as two parameters, the bare field name appended
\* under sort and asc or desc under order, and nothing under order when the
\* request has no sort specification.
C10_SortEncodingPerEncoder ==
    pc = "encoded" =>
        /\ req0.type \in {"ActorRequest", "SearchIOCsRequest"} =>
              Get(params, K_sort) = SortValues(SortSpecsOf(req0))
        /\ req0.type \in {"IndicatorRequest", "LegacyIndicatorRequest"} =>
              IF SortSpecsOf(req0) = << >>
              THEN /\ K_order \notin DOMAIN params
                   /\ (K_sort \in DOMAIN params => req0.Filter = K_sort /\ params[K_sort] = <<req0.Value>>)
              ELSE /\ Last(Get(params, K_sort)) = req0.Sort[1].Name
                   /\ Get(params, K_order) = <<(IF req0.Sort[1].Ascending THEN Asc ELSE Desc)>>
                   /\ Len(Get(params, K_sort)) = (IF req0.Filter = K_sort THEN 2 ELSE 1)

\* an actor request with two sort fields of different directions has been
\* encoded
C10_Witness ==
    /\ pc = "encoded"
    /\ req0.type = "ActorRequest" /\ Len(req0.SortFields) = 2
    /\ req0.SortFields[1].Ascending /\ ~req0.SortFields[2].Ascending
    /\ params[K_sort] = <<(<<"a",".","a","s","c">>), (<<"b",".","d","e","s","c">>)>>

-----------------------------------------------------------------------------
(* Properties of the time fields *)

\* the time fields of a request and the parameter each is sent under
TimeFieldsOf(r) ==
    CASE r.type = "ActorRequest" -> ActorTimeFields
      [] r.type = "SearchIOCsRequest" -> {"FromExpirationTimestamp", "ToExpirationTimestamp"}
      [] OTHER -> {}

TimeKeyOf(f) ==
    CASE f = "MinLastModifiedDate" -> K_min_last_modified_date
      [] f = "MaxLastModifieldDate" -> K_max_last_modified_date
      [] f = "MinLastActivityDate" -> K_min_last_activity_date
      [] f = "MaxLastActivityDate" -> K_max_last_activity_date
      [] f = "FromExpirationTimestamp" -> K_from_expiration_timestamp
      [] f = "ToExpirationTimestamp" -> K_to_expiration_timestamp

\* C11: in both families a time field that is nil or the zero time
\* contributes no parameter, and any other time contributes one.
C11_TimeOnlyIfNonNilNonZero ==
    pc = "encoded" =>
        \A f \in TimeFieldsOf(req0) :
            (TimeKeyOf(f) \in DOMAIN params)
                <=> (req0[f] # << >> /\ ~IsZero(req0[f][1]))

-----------------------------------------------------------------------------
(* The Timestamp Normalizer: convertDates, and the last step of the typed
   endpoint methods *)

\* largest magnitude of an epoch the server sends, in half seconds
MaxEpoch == 3

\* A float64 epoch is its number of half seconds: 3 is 1.5 s, -1 is -0.5 s.

\* a narrowing that rounds to the nearest second
int64Rounded(f) == (f + 1) \div 2

\* int64(f): Go's conversion of a float to an integer discards the fraction
int64(f) == IF f >= 0 THEN f \div 2 ELSE -((-f) \div 2)

\* time.Unix(sec, 0)
timeUnix(sec) == UnixTime(sec)

\* a conversion that also writes the narrowed value back to the raw fields
Relation_convertDatesNarrowing(r) ==
    [r EXCEPT !.CreatedDate = timeUnix(int64(r.CreatedDateEpoch)),
              !.LastValidDate = timeUnix(int64(r.LastValidDateEpoch)),
              !.CreatedDateEpoch = 2 * int64(r.CreatedDateEpoch),
              !.LastValidDateEpoch = 2 * int64(r.LastValidDateEpoch)]

Relation_convertDates(r) ==
    [r EXCEPT !.CreatedDate = timeUnix(int64(r.CreatedDateEpoch)),
              !.LastValidDate = timeUnix(int64(r.LastValidDateEpoch))]

Label_convertDates(l) ==
    [l EXCEPT !.CreatedOn = timeUnix(int64(l.CreatedOnEpoch)),
              !.LastValidOn = timeUnix(int64(l.LastValidOnEpoch))]

IndicatorResponse_convertDates(ir) ==
    [ir EXCEPT !.LastUpdated = timeUnix(int64(ir.LastUpdatedEpoch)),
               !.PublishedDate = timeUnix(int64(ir.PublishedDateEpoch)),
               !.Relations = [i \in DOMAIN @ |-> Relation_convertDates(@[i])],
               !.Labels = [i \in DOMAIN @ |-> Label_convertDates(@[i])]]

\* the four assignments of Resource.convertDates, in order: LastActivityDate
\* is assigned twice and LastModifiedDate never
Resource_convertDates(r) ==
    [[[[r EXCEPT !.CreatedDate = timeUnix(int64(r.CreatedEpoch))]
           EXCEPT !.LastActivityDate = timeUnix(int64(r.LastActivityEpoch))]
           EXCEPT !.FirstActivityDate = timeUnix(int64(r.FirstActivityEpoch))]
           EXCEPT !.LastActivityDate = timeUnix(int64(r.LastActivityEpoch))]

\* The structs as json.Decoder.Decode leaves them: the epochs are the server's,
\* the calendar fields have no JSON key and keep Go's zero time.
Epochs == (-MaxEpoch)..MaxEpoch
FewEpochs == {-1, 0, 3}

Relation(ce, ve) ==
    [CreatedDateEpoch |-> ce, CreatedDate |-> ZeroTime,
     LastValidDateEpoch |-> ve, LastValidDate |-> ZeroTime]

Label(ce, ve) ==
    [CreatedOnEpoch |-> ce, CreatedOn |-> ZeroTime,
     LastValidOnEpoch |-> ve, LastValidOn |-> ZeroTime]

IndicatorResponse(ue, pe, rels, labs) ==
    [LastUpdatedEpoch |-> ue, LastUpdated |-> ZeroTime,
     PublishedDateEpoch |-> pe, PublishedDate |-> ZeroTime,
     Relations |-> rels, Labels |-> labs]

Resource(ce, me, fe, le) ==
    [CreatedEpoch |-> ce, CreatedDate |-> ZeroTime,
     LastModifiedEpoch |-> me, LastModifiedDate |-> ZeroTime,
     FirstActivityEpoch |-> fe, FirstActivityDate |-> ZeroTime,
     LastActivityEpoch |-> le, LastActivityDate |-> ZeroTime]

Process(se, te) ==
    [StartTimestampEpoch |-> se, StartTimestamp |-> ZeroTime,
     StopTimestampEpoch |-> te, StopTimestamp |-> ZeroTime]

\* no entry, one entry, or a fixed first entry followed by one of a few
UpToTwo(first, all, few) ==
    {<< >>} \cup {<<x>> : x \in all} \cup {<<first, x>> : x \in few}

RelationLists ==
    UpToTwo(Relation(0, 0), {Relation(ce, ve) : ce \in Epochs, ve \in FewEpochs},
            {Relation(e, e) : e \in Epochs})

LabelLists ==
    UpToTwo(Label(0, 0), {Label(ce, ve) : ce \in Epochs, ve \in FewEpochs},
            {Label(e, e) : e \in Epochs})

IndicatorResponses ==
    {IndicatorResponse(ue, pe, << >>, << >>) : ue \in Epochs, pe \in Epochs}
    \cup {IndicatorResponse(0, 0, rels, << >>) : rels \in RelationLists}
    \cup {IndicatorResponse(0, 0, << >>, labs) : labs \in LabelLists}
    \cup {IndicatorResponse(e, e, <<Relation(e, e)>>, <<Label(e, e)>>) : e \in Epochs}

\* what Indicators decodes into: resp []IndicatorResponse
DecodedIndicators ==
    {[type |-> "IndicatorResponses", items |-> is] :
        is \in UpToTwo(IndicatorResponse(0, 0, << >>, << >>), IndicatorResponses,
                       {IndicatorResponse(e, e, <<Relation(e, e)>>, <<Label(e, e)>>) :
                            e \in Epochs})}

\* what Actors decodes into: resp *ActorResponse
DecodedActors ==
    {[type |-> "ActorResponse", Resources |-> rs] :
        rs \in UpToTwo(Resource(0, 0, 0, 0),
                       {Resource(ce, me, fe, le) :
                            ce \in Epochs, me \in FewEpochs, fe \in FewEpochs, le \in FewEpochs},
                       {Resource(e, e, e, e) : e \in Epochs})}

\* what ProcessDetails decodes into: resp *ProcessResponse
DecodedProcesses ==
    {[type |-> "ProcessResponse", Resources |-> ps] :
        ps \in UpToTwo(Process(0, 0), {Process(se, te) : se \in Epochs, te \in Epochs},
                       {Process(e, e) : e \in Epochs})}

\* client.do has just returned nil to a typed endpoint method, having decoded
\* the body into the method's resp (Respond with result "decoded"); the
\* variables of the exchange itself are left out of this specification
InitNorm ==
    /\ pc = "decoded"
    /\ family \in {"Intel", "Host", "Legacy"}
    /\ \E b \in {Build(family, CallOptions("nil", "nil"))} :
          /\ b.r.built
          /\ options = b.options
          /\ c = b.r.c
          /\ applied = b.r.applied
          /\ errout = b.r.errout
          /\ traceout = b.r.traceout
    /\ ret = [value |-> "client", err |-> NoError]
    /\ op \in {[name |-> n, raw |-> FALSE, do |-> TRUE] :
                  n \in IF family = "Host" THEN {"ProcessDetails"}
                                           ELSE {"Actors", "Indicators"}}
    /\ decoded \in CASE op.name = "Actors" -> DecodedActors
                     [] op.name = "Indicators" -> DecodedIndicators
                     [] op.name = "ProcessDetails" -> DecodedProcesses
    /\ req = NoReq /\ req0 = NoReq /\ params = NoParams
    /\ httpreq = NoHTTPReq /\ calls = << >> /\ resp = NoResp /\ body = NoBody
    /\ sink = << >> /\ sink0 = << >> /\ result = "decoded"

NormUnchanged ==
    UNCHANGED <<family, options, c, applied, errout, traceout, op, req, req0, params,
                httpreq, calls, resp, body, sink, sink0, result>>

\* the typed method hands its resp back with a nil error
Returned(d) ==
    /\ pc' = "returned"
    /\ decoded' = d
    /\ ret' = [value |-> "resp", err |-> NoError]
    /\ NormUnchanged

\* what the loop at the end of Actors makes of resp
convertActors(d) ==
    [d EXCEPT !.Resources = [i \in DOMAIN @ |-> Resource_convertDates(@[i])]]

\* what the loop at the end of Indicators makes of resp
convertIndicators(d) ==
    [d EXCEPT !.items = [i \in DOMAIN @ |-> IndicatorResponse_convertDates(@[i])]]

\* Actors after client.do: err == nil, so every resource is converted
ActorsReturn ==
    /\ pc = "decoded" /\ op.name = "Actors"
    /\ Returned(convertActors(decoded))

\* Indicators after client.do: err == nil, so every indicator is converted
IndicatorsReturn ==
    /\ pc = "decoded" /\ op.name = "Indicators"
    /\ Returned(convertIndicators(decoded))

\* ProcessDetails after client.do: it returns resp as decoded
ProcessDetailsReturn ==
    /\ pc = "decoded" /\ op.name = "ProcessDetails"
    /\ Returned(decoded)

\* convertDates applied once more to a response that was already converted
ConvertAgain ==
    /\ pc = "returned" /\ op.name \in {"Actors", "Indicators"}
    /\ pc' = "renormalized"
    /\ decoded' = IF op.name = "Actors" THEN convertActors(decoded)
                                        ELSE convertIndicators(decoded)
    /\ UNCHANGED ret
    /\ NormUnchanged

NextNorm == ActorsReturn \/ IndicatorsReturn \/ ProcessDetailsReturn \/ ConvertAgain

SpecNorm == InitNorm /\ [][NextNorm]_vars

-----------------------------------------------------------------------------
(* Properties of the Timestamp Normalizer *)

\* the elements of a sequence
Range(s) == {s[i] : i \in DOMAIN s}

\* the (raw epoch, derived timestamp) pairs of a relation, a label, an
\* indicator with its nested entries, an actor resource and a process
RelationPairs(r) ==
    {<<r.CreatedDateEpoch, r.CreatedDate>>, <<r.LastValidDateEpoch, r.LastValidDate>>}

LabelPairs(l) ==
    {<<l.CreatedOnEpoch, l.CreatedOn>>, <<l.LastValidOnEpoch, l.LastValidOn>>}

IndicatorPairs(ir) ==
    {<<ir.LastUpdatedEpoch, ir.LastUpdated>>, <<ir.PublishedDateEpoch, ir.PublishedDate>>}
    \cup UNION {RelationPairs(r) : r \in Range(ir.Relations)}
    \cup UNION {LabelPairs(l) : l \in Range(ir.Labels)}

ResourcePairs(r) ==
    {<<r.CreatedEpoch, r.CreatedDate>>, <<r.LastModifiedEpoch, r.LastModifiedDate>>,
     <<r.FirstActivityEpoch, r.FirstActivityDate>>,
     <<r.LastActivityEpoch, r.LastActivityDate>>}

ProcessPairs(p) ==
    {<<p.StartTimestampEpoch, p.StartTimestamp>>, <<p.StopTimestampEpoch, p.StopTimestamp>>}

\* every pair of a response
PairsOf(d) ==
    CASE d.type = "ActorResponse" -> UNION {ResourcePairs(r) : r \in Range(d.Resources)}
      [] d.type = "IndicatorResponses" -> UNION {IndicatorPairs(ir) : ir \in Range(d.items)}
      [] d.type = "ProcessResponse" -> UNION {ProcessPairs(p) : p \in Range(d.Resources)}

\* the derived timestamp is an instant of the epoch's second: the very second
\* of a whole epoch, one of the two neighbouring seconds of a fractional one
InstantOf(pair) ==
    /\ ~pair[2].year1
    /\ 2 * pair[2].unix <= pair[1] + 1
    /\ 2 * pair[2].unix >= pair[1] - 1
    /\ (pair[1] % 2 = 0) => (2 * pair[2].unix = pair[1])

\* C12: when a typed endpoint method has returned without error, every
\* derived timestamp of the response, nested entries included, is the instant
\* its raw epoch names.
C12_DerivedMatchesEpoch ==
    (pc = "returned" /\ ret.err = NoError) =>
        \A pair \in PairsOf(decoded) : InstantOf(pair)

\* C13 (as claimed): the derived timestamp of every converted epoch, positive
\* or negative, is the floor of the epoch in whole seconds.
C13_DerivedIsFloor ==
    (pc = "returned" /\ op.name = "Indicators") =>
        \A pair \in PairsOf(decoded) : pair[2] = UnixTime(pair[1] \div 2)

\* C13 (amended): the derived timestamp of every converted epoch is the epoch
\* with its fraction discarded: the floor of an epoch that is not negative,
\* the ceiling of a negative one, and never a value rounded away from zero.
C13_DerivedIsTruncation ==
    (pc = "returned" /\ op.name = "Indicators") =>
        \A pair \in PairsOf(decoded) :
            /\ ~pair[2].year1
            /\ pair[1] >= 0 => pair[2].unix = pair[1] \div 2
            /\ pair[1] < 0 => pair[2].unix = -((-pair[1]) \div 2)

\* an indicator with the epochs 1.5 and -1.5 came back as second 1 and
\* second -1
C13_Witness ==
    /\ pc = "returned" /\ op.name = "Indicators"
    /\ Len(decoded.items) = 1
    /\ decoded.items[1].LastUpdatedEpoch = 3
    /\ decoded.items[1].LastUpdated = UnixTime(1)
    /\ decoded.items[1].PublishedDateEpoch = -3
    /\ decoded.items[1].PublishedDate = UnixTime(-1)

\* a response with its derived timestamps cleared: what remains is raw
Raw(d) ==
    CASE d.type = "ActorResponse" ->
            [d EXCEPT !.Resources =
                [i \in DOMAIN @ |-> [@[i] EXCEPT !.CreatedDate = ZeroTime,
                                                 !.LastModifiedDate = ZeroTime,
                                                 !.FirstActivityDate = ZeroTime,
                                                 !.LastActivityDate = ZeroTime]]]
      [] d.type = "IndicatorResponses" ->
            [d EXCEPT !.items =
                [i \in DOMAIN @ |->
                    [@[i] EXCEPT !.LastUpdated = ZeroTime, !.PublishedDate = ZeroTime,
                                 !.Relations = [j \in DOMAIN @ |->
                                     [@[j] EXCEPT !.CreatedDate = ZeroTime,
                                                  !.LastValidDate = ZeroTime]],
                                 !.Labels = [j \in DOMAIN @ |->
                                     [@[j] EXCEPT !.CreatedOn = ZeroTime,
                                                  !.LastValidOn = ZeroTime]]]]]
      [] OTHER -> d

\* C14: convertDates is idempotent: applied to a response it has already
\* converted it changes nothing, neither a derived timestamp nor a raw epoch,
\* and its first application leaves the raw epochs as they were decoded.
C14_ConvertDatesIdempotent ==
    [][ /\ (pc = "decoded" /\ pc' = "returned") => Raw(decoded') = decoded
        /\ (pc = "returned" /\ pc' = "renormalized") => decoded' = decoded ]_vars

\* an indicator with epoch 0 and a relation with a fractional epoch has been
\* converted twice and shows 1970-01-01T00:00:00Z
C14_Witness ==
    /\ pc = "renormalized" /\ op.name = "Indicators"
    /\ Len(decoded.items) = 1
    /\ decoded.items[1].LastUpdatedEpoch = 0
    /\ decoded.items[1].LastUpdated = UnixTime(0)
    /\ FormatRFC3339(decoded.items[1].LastUpdated)
          = <<"1","9","7","0","-","0","1","-","0","1","T","0","0",":","0","0",":","0","0","Z">>
    /\ Len(decoded.items[1].Relations) = 1
    /\ decoded.items[1].Relations[1].CreatedDateEpoch = 3
    /\ decoded.items[1].Relations[1].CreatedDate = UnixTime(1)

-----------------------------------------------------------------------------
(* Properties of the order of construction *)

\* the struct the constructor of a family starts from
InitialClient(fam) == IF fam = "Legacy" THEN [client EXCEPT !.url = DefaultURL] ELSE client

\* the number of the first option of the list that fails, 0 when none does
FirstInvalid(opts) ==
    IF \A i \in 1..Len(opts) : OptionValid(opts[i])
    THEN 0
    ELSE CHOOSE i \in 1..Len(opts) :
            /\ ~OptionValid(opts[i])
            /\ \A j \in 1..(i - 1) : OptionValid(opts[j])

RECURSIVE Draft(_, _, _)
\* the draft configuration after the first n options, applied in order
Draft(fam, opts, n) ==
    IF n = 0 THEN InitialClient(fam) ELSE ApplyOption(opts[n], Draft(fam, opts, n - 1)).c

\* C15 (as claimed): whenever construction returns missing_credentials, every
\* option of the list has been applied.
C15_MissingCredentialsAfterAllOptions ==
    (pc = "constructed" /\ ret.err = ErrMissingCredentials) => applied = Len(options)

\* C15 (amended): the final check comes after every option: when all options
\* are valid and the identifier or the secret is still empty, every option
\* has been applied and missing_credentials is returned; missing_credentials
\* is otherwise returned only by a SetCredentials option with an empty
\* identifier or secret, the first failing option of the list, and the
\* options after it are not applied.
C15_FinalCheckAfterAllOptions ==
    pc = "constructed" =>
        /\ ( /\ FirstInvalid(options) = 0
             /\ (Draft(family, options, Len(options)).id = EmptyStr
                 \/ Draft(family, options, Len(options)).key = EmptyStr) )
           => ( /\ ret.err = ErrMissingCredentials /\ ret.value = "nil"
                /\ applied = Len(options)
                /\ c = Draft(family, options, Len(options)) )
        /\ (ret.err = ErrMissingCredentials /\ FirstInvalid(options) # 0)
           => ( /\ applied = FirstInvalid(options)
                /\ options[applied].f = "SetCredentials"
                /\ (options[applied].id = EmptyStr \/ options[applied].key = EmptyStr) )

\* the final check refused a client whose last option, a trace log, had been
\* applied and had written its line
C15_Witness ==
    /\ pc = "constructed"
    /\ ret.err = ErrMissingCredentials
    /\ FirstInvalid(options) = 0
    /\ Len(options) >= 2 /\ applied = Len(options)
    /\ options[Len(options)] = [f |-> "SetTraceLog", logger |-> "tracelogger"]
    /\ c.tracelog = "tracelogger"
    /\ traceout # << >>

\* C16: options are applied in the order given; the first one that fails ends
\* construction with its own error and no client, and no option after it is
\* applied; when none fails, all have been applied in order.
C16_FirstFailingOptionAborts ==
    pc = "constructed" =>
        IF FirstInvalid(options) # 0
        THEN /\ applied = FirstInvalid(options)
             /\ ret.err = ApplyOption(options[applied], client).err
             /\ ret.value = "nil"
             /\ c = Draft(family, options, applied - 1)
        ELSE /\ applied = Len(options)
             /\ c = Draft(family, options, Len(options))

\* a failing option stood before a valid trace log option, which was never
\* applied
C16_Witness ==
    /\ pc = "constructed"
    /\ Len(options) >= 2
    /\ FirstInvalid(options) = Len(options) - 1
    /\ options[Len(options)] = [f |-> "SetTraceLog", logger |-> "tracelogger"]
    /\ applied = Len(options) - 1
    /\ c.tracelog = "nil"
    /\ ret.err.Code = "bad_url" /\ ret.value = "nil"

\* C17: the base URL of every client a constructor returns has the scheme
\* http or https and ends with a slash.
C17_BuiltURLHasSchemeAndSlash ==
    (pc = "constructed" /\ ret.value = "client") =>
        /\ ~urlParse(c.url).err
        /\ urlParse(c.url).Scheme \in {HTTP, HTTPS}
        /\ c.url # EmptyStr /\ Last(c.url) = "/"

\* a client was built from a URL given without its final slash
C17_Witness ==
    /\ pc = "constructed" /\ ret.value = "client"
    /\ \E i \in 1..Len(options) :
          /\ options[i].f = "SetURL"
          /\ options[i].rawurl = <<"h","t","t","p",":","/","/","a">>
    /\ c.url = <<"h","t","t","p",":","/","/","a","/">>

\* the default base URL of a family
DefaultOf(fam) == IF fam = "Host" THEN DefaultURLHost ELSE DefaultURL

\* C18: a client built by NewIntel or NewHost from options that carry no base
\* URL, or only an empty one, has the default base URL of its own family.
C18_DefaultURLPerFamily ==
    ( /\ pc = "constructed" /\ ret.value = "client"
      /\ family \in {"Intel", "Host"}
      /\ \A i \in 2..Len(options) :
            options[i].f = "SetURL" => options[i].rawurl = EmptyStr )
    => c.url = DefaultOf(family)

-----------------------------------------------------------------------------
(* Option functions applied to a built client *)

\* The legacy options are functions of *Intel, the type New returns, so a
\* caller can run one on the client it holds, as the command line tools do
\* with SetTraceLog; the options of NewIntel and NewHost take the unexported
\* *client, which a caller cannot reach.
PostOptions ==
    { [f |-> "SetTraceLog", logger |-> "tracelogger"],
      [f |-> "SetURL", rawurl |-> <<"h","t","t","p",":","/","/","a">>],
      [f |-> "SetCredentials", id |-> EmptyStr, key |-> <<"k">>] }

\* gocs.SetTraceLog(...)(cs) and its like, once, before the client is used
OptionOnBuilt ==
    /\ pc = "constructed" /\ family = "Legacy"
    /\ applied = Len(options)
    /\ \E o \in PostOptions :
       \E r \in {ApplyOption(o, c)} :
          /\ c' = r.c
          /\ errout' = errout \o r.errout
          /\ traceout' = traceout \o r.traceout
          /\ ret' = [value |-> "none", err |-> r.err]
    /\ applied' = applied + 1
    /\ UNCHANGED <<pc, family, options>>
    /\ CallUnchanged

NextUse == NextCall \/ OptionOnBuilt

SpecUse == InitCall /\ [][NextUse]_vars

\* C19: the configuration of a built client stays what its constructor made
\* of the options it was given, whatever is done with the client afterwards.
C19_ConfigurationNeverChanges ==
    c = Draft(family, options, Len(options))

-----------------------------------------------------------------------------
(* Properties of the request client.do sends *)

\* the headers a request of the family must carry for the client's credentials
AuthHeaders(fam, cl) ==
    IF fam = "Host"
    THEN ("Authorization" :> <<"Basic", cl.id, cl.key>>)
    ELSE ("X-CSIX-CUSTID" :> cl.id) @@ ("X-CSIX-CUSTKEY" :> cl.key)

\* C20: every request the transport receives was built, carries Accept:
\* application/json and carries the credentials of the client exactly as the
\* family's authentication puts them, set once after the request was built
\* and before it was sent; none carries empty credentials.
C20_SentRequestsAcceptJSONAndAuth ==
    \A i \in 1..Len(calls) :
        /\ calls[i].built
        /\ calls[i].Header = ("Accept" :> <<"application/json">>) @@ AuthHeaders(family, c)
        /\ c.id # EmptyStr /\ c.key # EmptyStr
        /\ calls[i].steps = <<"NewRequest", "Accept", "authFunc">>

\* a host request is with the transport, carrying basic auth
C20_Witness ==
    /\ pc = "inflight" /\ family = "Host"
    /\ Len(calls) = 1
    /\ calls[1].Header["Accept"] = <<"application/json">>
    /\ calls[1].Header["Authorization"] = <<"Basic", <<"i">>, <<"k">>>>

(***************************************************************************)
(* Authentication strategy                                                 *)
(***************************************************************************)

\* the two custom headers of the Intel family
CustomAuthPresent(h) == "X-CSIX-CUSTID" \in DOMAIN h \/ "X-CSIX-CUSTKEY" \in DOMAIN h

\* C21: the authentication strategy is fixed by the client's family. Every
\* request of an Intel client carries X-CSIX-CUSTID and X-CSIX-CUSTKEY with
\* the configured id and secret and no Authorization header; every request
\* of a Host client carries basic authentication with the id as username and
\* the secret as password and neither custom header.
C21_AuthStrategyPerFamily ==
    \A i \in 1..Len(calls) :
        \A h \in {calls[i].Header} :
            IF family = "Host"
            THEN /\ "Authorization" \in DOMAIN h
                 /\ h["Authorization"] = <<"Basic", c.id, c.key>>
                 /\ ~CustomAuthPresent(h)
            ELSE /\ "X-CSIX-CUSTID" \in DOMAIN h /\ h["X-CSIX-CUSTID"] = c.id
                 /\ "X-CSIX-CUSTKEY" \in DOMAIN h /\ h["X-CSIX-CUSTKEY"] = c.key
                 /\ "Authorization" \notin DOMAIN h

\* an Intel client's raw indicator call has returned after one request that
\* carried the two custom headers and no Authorization header
C21_Witness ==
    /\ pc = "returned" /\ family = "Intel" /\ op.name = "IndicatorsJSON"
    /\ Len(calls) = 1
    /\ calls[1].Header["X-CSIX-CUSTID"] = <<"i">>
    /\ calls[1].Header["X-CSIX-CUSTKEY"] = <<"k">>
    /\ "Authorization" \notin DOMAIN calls[1].Header

(***************************************************************************)
(* Logging and the outcome of a call                                       *)
(***************************************************************************)

\* the transport answers with an error, with a whole response or with a
\* response whose body breaks off
RespondAnyBody ==
    \E o \in TransportOutcomes \cup FaultyOutcomes, readahead \in 0..MaxBody :
        Receive(o, readahead, TRUE)

NextLog == Actors \/ Indicators \/ SearchIOCs \/ RespondAnyBody

SpecLog == InitCall /\ [][NextLog]_vars

\* the client with neither log configured
WithoutLogs(cl) == [cl EXCEPT !.errorlog = "nil", !.tracelog = "nil"]

\* what the caller can observe of a return: the error, and on success the
\* decoded value and the bytes in the sink
Observed(err, res, snk) ==
    IF err = NoError THEN [err |-> NoError, result |-> res, sink |-> snk]
    ELSE [err |-> err, result |-> "none", sink |-> << >>]

\* C22: for the same request and the same response of the server, a call
\* returns the same outcome (success with the same decoded value or the same
\* bytes in the sink, or the same error) whether the error log and the trace
\* log are configured or absent.
C22_OutcomeIndependentOfLogs ==
    (pc = "returned" /\ op # NoOp /\ resp # NoResp) =>
        \A quiet \in {doReceive(WithoutLogs(c),
                                [err |-> FALSE, StatusCode |-> resp.StatusCode,
                                 Body |-> resp.Body, fault |-> resp.fault],
                                IF op.raw THEN "writer" ELSE "typed",
                                sink0, resp.readahead)} :
            Observed(ret.err, result, sink) = Observed(quiet.err, quiet.result, quiet.sink)

(***************************************************************************)
(* Error values                                                            *)
(***************************************************************************)

\* C23: every failure of an endpoint method or of the send under it (missing
\* parameters, request that cannot be built, transport failure, status
\* outside 200..299, decode failure) returns one tagged Error value with a
\* code and a message, and the call returns no result alongside the error.
C23_FailureIsOneTaggedError ==
    (pc = "returned" /\ ret.err # NoError) =>
        /\ ret.err.kind = "Error"
        /\ ret.err.Code # "" /\ ret.err.Message # << >>
        /\ ret.value \in {"none", "nil"}

(***************************************************************************)
(* The caller's request object                                             *)
(***************************************************************************)

\* a request with the documented defaults filled in: limit 10 and the basic
\* fields for actors, page 1 and page size 10 for indicators
Defaulted(r) ==
    CASE r.type = "ActorRequest" ->
            [r EXCEPT !.Limit = IF @ = 0 THEN 10 ELSE @,
                      !.Fields = IF @ = << >> THEN <<BasicFields>> ELSE @]
      [] r.type \in {"IndicatorRequest", "LegacyIndicatorRequest"} ->
            [r EXCEPT !.Page = IF @ = 0 THEN 1 ELSE @,
                      !.PerPage = IF @ = 0 THEN 10 ELSE @]
      [] OTHER -> r

\* the request as the caller passed it is the request as the call left it
C24_RequestUnchanged == req = req0

\* C24: an endpoint call, typed or raw, successful or failed, leaves the
\* caller's request as it was except for the defaults it fills in: every
\* field of the request has the value it had before the call, but a zero
\* limit, page or page size and an empty field list hold their default once
\* the request was encoded; a call refused for missing parameters changes
\* nothing.
C24_RequestChangedOnlyByDefaults ==
    pc \in {"inflight", "returned"} =>
        req = IF op.do THEN Defaulted(req0) ELSE req0

\* a typed actor call has failed, and the caller's request holds the default
\* limit and field list it did not hold before, and the motivations it held
C24_Witness ==
    /\ pc = "returned" /\ op.name = "Actors" /\ ret.err # NoError
    /\ req0.Limit = 0 /\ req0.Fields = << >>
    /\ req.Limit = 10 /\ req.Fields = <<BasicFields>>
    /\ req0.Motivations = <<A, B>> /\ req.Motivations = <<A, B>>

(***************************************************************************)
(* Concurrent calls on one client                                          *)
(*                                                                         *)
(* Several goroutines each make one actor call on the same Intel client.   *)
(* The variables that belong to one call (pc, op, req0, params, httpreq,   *)
(* resp, body, sink, sink0, result, ret) hold one value per goroutine; req *)
(* holds the request objects of the callers by address, and op[g].ptr is   *)
(* the address goroutine g passes. The client, the two logs and the        *)
(* transport's record of requests are shared. Nothing orders the steps of  *)
(* one call against those of another.                                      *)
(***************************************************************************)

MaxCalls == 2

Goroutines == 1..MaxCalls

\* the request object at address i before any call
ParRequest(i) ==
    CASE i = 1 -> BlankActorRequest
      [] i = 2 -> [BlankActorRequest EXCEPT !.Limit = 5, !.Fields = <<A>>]
      [] OTHER -> [BlankActorRequest EXCEPT !.Motivations = <<A, B>>]

\* which object each goroutine passes: its own or that of an earlier one
Pointers == {p \in [Goroutines -> Goroutines] : \A g \in Goroutines : p[g] <= g}

\* what the transport answers to a concurrent call
ParOutcomes ==
    {[err |-> TRUE],
     [err |-> FALSE, StatusCode |-> 200, Body |-> <<"{", "}">>, fault |-> "none"],
     [err |-> FALSE, StatusCode |-> 200, Body |-> <<"x">>, fault |-> "none"],
     [err |-> FALSE, StatusCode |-> 404, Body |-> << >>, fault |-> "none"]}

\* even goroutines call ActorsJSON with a sink of their own, odd ones Actors
ParRaw(g) == g % 2 = 0

InitPar ==
    /\ family = "Intel"
    /\ \E l \in BOOLEAN :
       \E b \in {Build(family, CallOptions(IF l THEN "errlogger" ELSE "nil",
                                           IF l THEN "tracelogger" ELSE "nil"))} :
          /\ b.r.built
          /\ options = b.options
          /\ c = b.r.c
          /\ applied = b.r.applied
          /\ errout = b.r.errout
          /\ traceout = b.r.traceout
    /\ req = [i \in Goroutines |-> ParRequest(i)]
    /\ \E p \in Pointers :
          /\ op = [g \in Goroutines |->
                     [name |-> IF ParRaw(g) THEN "ActorsJSON" ELSE "Actors",
                      raw |-> ParRaw(g), do |-> TRUE, ptr |-> p[g], wroteFields |-> FALSE]]
          /\ req0 = [g \in Goroutines |-> ParRequest(p[g])]
    /\ pc = [g \in Goroutines |-> "start"]
    /\ params = [g \in Goroutines |-> NoParams]
    /\ httpreq = [g \in Goroutines |-> NoHTTPReq]
    /\ resp = [g \in Goroutines |-> NoResp]
    /\ body = [g \in Goroutines |-> NoBody]
    /\ sink = [g \in Goroutines |-> << >>]
    /\ sink0 = [g \in Goroutines |-> << >>]
    /\ result = [g \in Goroutines |-> "none"]
    /\ ret = [g \in Goroutines |-> [value |-> "none", err |-> NoError]]
    /\ calls = << >>
    /\ decoded = NoDecoded

\* an encoder that works on one package-level request object
targetShared(g) == 1

\* the request object goroutine g's encoder works on
target(g) == op[g].ptr

\* intel.go 199-201 in goroutine g
ParLimit(g) ==
    /\ pc[g] = "start"
    /\ pc' = [pc EXCEPT ![g] = "limited"]
    /\ req' = [req EXCEPT ![target(g)].Limit = IF @ = 0 THEN 10 ELSE @]
    /\ UNCHANGED <<op, req0, params, httpreq, calls, resp, body, sink, sink0, result,
                   ret, decoded, errout, traceout>>
    /\ ConstructionUnchanged

\* intel.go 202-204 in goroutine g
ParFields(g) ==
    /\ pc[g] = "limited"
    /\ pc' = [pc EXCEPT ![g] = "defaulted"]
    /\ IF Len(req[target(g)].Fields) = 0
       THEN /\ req' = [req EXCEPT ![target(g)].Fields = Append(@, BasicFields)]
            /\ op' = [op EXCEPT ![g].wroteFields = TRUE]
       ELSE UNCHANGED <<req, op>>
    /\ UNCHANGED <<req0, params, httpreq, calls, resp, body, sink, sink0, result,
                   ret, decoded, errout, traceout>>
    /\ ConstructionUnchanged

\* What goroutine g can read from the Fields of its request object. When
\* another goroutine stored a new slice there, that store and this read are
\* a data race: the read sees the slice stored, or a slice whose element has
\* not arrived yet.
FieldsSeen(g) ==
    IF \E h \in Goroutines \ {g} : target(h) = target(g) /\ op[h].wroteFields
    THEN {req[target(g)].Fields, <<EmptyStr>>}
    ELSE {req[target(g)].Fields}

\* intel.go 205-222 and common.go 192-209 in goroutine g: the parameters are
\* read from the request object and the request goes to the transport
ParEncode(g) ==
    /\ pc[g] = "defaulted"
    /\ \E seen \in FieldsSeen(g) :
       \E e \in {actorRequestToParams([req[target(g)] EXCEPT !.Fields = seen])} :
       \E s \in {doSend(c, family, "GET", Path_actors, e.params)} :
          /\ params' = [params EXCEPT ![g] = e.params]
          /\ httpreq' = [httpreq EXCEPT ![g] = s.httpreq]
          /\ calls' = calls \o s.calls
          /\ traceout' = traceout \o s.traceout
          /\ IF s.err # NoError
             THEN /\ pc' = [pc EXCEPT ![g] = "returned"]
                  /\ ret' = [ret EXCEPT ![g] = [value |-> IF op[g].raw THEN "none" ELSE "resp",
                                                err |-> s.err]]
             ELSE /\ pc' = [pc EXCEPT ![g] = "inflight"]
                  /\ UNCHANGED ret
    /\ UNCHANGED <<op, req, req0, resp, body, sink, sink0, result, decoded, errout>>
    /\ ConstructionUnchanged

\* common.go 209-243 in goroutine g
ParReceive(g) ==
    /\ pc[g] = "inflight"
    /\ \E o \in ParOutcomes :
       \E d \in {doReceive(c, o, IF op[g].raw THEN "writer" ELSE "typed", sink[g], 0)} :
          /\ pc' = [pc EXCEPT ![g] = "returned"]
          /\ resp' = [resp EXCEPT ![g] =
                        IF d.received
                        THEN [received |-> TRUE, StatusCode |-> o.StatusCode, Body |-> o.Body]
                        ELSE NoResp]
          /\ body' = [body EXCEPT ![g] = d.body]
          /\ sink' = [sink EXCEPT ![g] = d.sink]
          /\ result' = [result EXCEPT ![g] = d.result]
          /\ errout' = errout \o d.errout
          /\ traceout' = traceout \o d.traceout
          /\ ret' = [ret EXCEPT ![g] = [value |-> IF op[g].raw THEN "none" ELSE "resp",
                                        err |-> d.err]]
    /\ UNCHANGED <<op, req, req0, params, httpreq, calls, sink0, decoded>>
    /\ ConstructionUnchanged

NextPar ==
    \E g \in Goroutines : ParLimit(g) \/ ParFields(g) \/ ParEncode(g) \/ ParReceive(g)

SpecPar == InitPar /\ [][NextPar]_vars

\* no other call was given the request object of call g
OwnRequest(g) == \A h \in Goroutines \ {g} : op[h].ptr # op[g].ptr

\* call g is where it would be had it run alone on the client as built: the
\* request it sent, and once it returned its error, its decoded value and the
\* bytes in its sink, follow from its own request and its own response
AsIfAlone(g) ==
    /\ pc[g] \in {"inflight", "returned"} =>
          \A e \in {actorRequestToParams(req0[g])} :
          \A s \in {doSend(Draft(family, options, Len(options)), family, "GET",
                           Path_actors, e.params)} :
             /\ params[g] = e.params
             /\ httpreq[g] = s.httpreq
    /\ (pc[g] = "returned" /\ resp[g] = NoResp) => ret[g].err = ForeignError("net")
    /\ (pc[g] = "returned" /\ resp[g] # NoResp) =>
          \A d \in {doReceive(Draft(family, options, Len(options)),
                              [err |-> FALSE, StatusCode |-> resp[g].StatusCode,
                               Body |-> resp[g].Body, fault |-> "none"],
                              IF op[g].raw THEN "writer" ELSE "typed", sink0[g], 0)} :
             /\ ret[g].err = d.err
             /\ result[g] = d.result
             /\ sink[g] = d.sink

\* the client configuration is the one construction left
ConfigurationAsBuilt == c = Draft(family, options, Len(options))

\* concurrent calls on one client, in any interleaving, each end with the
\* outcome they would have had alone, and the configuration stays as built
C25_EveryCallAsIfAlone ==
    /\ ConfigurationAsBuilt
    /\ \A g \in Goroutines : AsIfAlone(g)

\* C25: calls issued concurrently on one constructed client, each on a request
\* object that no other of the calls was given, end in any interleaving with
\* the outcome they would have had if run alone, and the client configuration
\* is unchanged throughout.
C25_CallsOnOwnRequestsAsIfAlone ==
    /\ ConfigurationAsBuilt
    /\ \A g \in Goroutines : OwnRequest(g) => AsIfAlone(g)

\* two calls on their own request objects have both returned, the second
\* having reached the transport first; one succeeded and one failed
C25_Witness ==
    /\ \A g \in {1, 2} : pc[g] = "returned" /\ OwnRequest(g)
    /\ Len(calls) >= 2 /\ calls[1] = httpreq[2] /\ calls[2] = httpreq[1]
    /\ httpreq[1] # httpreq[2]
    /\ ret[1].err = NoError /\ result[1] = "decoded"
    /\ ret[2].err # NoError
    /\ req[1].Limit = 10 /\ req[2].Limit = 5

(***************************************************************************)
(* Encoding a request a second time                                        *)
(***************************************************************************)

\* the encoder of a request type
encoderOf(r) ==
    CASE r.type = "ActorRequest" -> actorRequestToParams(r)
      [] r.type = "IndicatorRequest" -> indicatorRequestToParams(r)
      [] r.type = "LegacyIndicatorRequest" -> legacyIndicatorRequestToParams(r)
      [] OTHER -> searchRequestToParams(r)

\* the caller passes the request, as the first encoding left it, to the
\* encoder again
EncodeAgain ==
    /\ pc = "encoded"
    /\ \E e \in {encoderOf(req)} :
          /\ pc' = "reencoded"
          /\ req' = e.req
          /\ params' = e.params
    /\ UNCHANGED <<family, options, c, ret, applied, errout, traceout, op, req0,
                   httpreq, calls, resp, body, sink, sink0, result, decoded>>

NextAgain == NextEnc \/ EncodeAgain

SpecAgain == InitEnc /\ [][NextAgain]_vars

\* C26: encoding the same ActorRequest or IndicatorRequest a second time,
\* after the first encoding filled in its defaults, yields exactly the same
\* parameter multi-map and changes the request no further.
C26_SecondEncodingSame ==
    [][ (pc = "encoded" /\ pc' = "reencoded"
            /\ req.type \in {"ActorRequest", "IndicatorRequest"})
        => (params' = params /\ req' = req) ]_vars

\* an actor request that had no limit and no field list has been encoded
\* twice and holds the two defaults, each sent once
C26_Witness ==
    /\ pc = "reencoded" /\ req.type = "ActorRequest"
    /\ req0.Limit = 0 /\ req0.Fields = << >>
    /\ req.Limit = 10 /\ req.Fields = <<BasicFields>>
    /\ Get(params, K_limit) = <<Itoa(10)>>
    /\ Get(params, K_fields) = <<BasicFields>>

=============================================================================
